---------------------------- MODULE Spec2Model ----------------------------
(***************************************************************************)
(* A model of the scanner (tokenizer.rs), the grammar validator            *)
(* (parser.rs), the evaluator (eval.rs) and the driver (main.rs).          *)
(*                                                                         *)
(* A byte is a one-character string; NUL stands for byte 0 and GS for      *)
(* byte 29.  A lexeme is a sequence of bytes.  Token kinds carry the names *)
(* of the Rust enum Token.  The cursor i of the validator and of the       *)
(* evaluator is 0-based as in the code, so the token it names is           *)
(* tokens[i + 1].  A panic of the Rust code (unwrap, expect, an index out  *)
(* of range, an integer division by zero) is the outcome "panic".          *)
(***************************************************************************)
EXTENDS Integers, Sequences, FiniteSets, TLC

VARIABLES args, argIdx, pc, reader, dfa, vec, variables, stdout, hist

vars == <<args, argIdx, pc, reader, dfa, vec, variables, stdout, hist>>

(***************************************************************************)
(* Bounds of the model.                                                    *)
(***************************************************************************)
MaxFiles == 2

MaxScanLen == 4

MaxToks == 4

MaxExprToks == 5

(***************************************************************************)
(* tokenizer.rs                                                            *)
(***************************************************************************)
NUL == "NUL"

GS == "GS"

Digits == {"0", "1", "2", "3", "4", "5", "6", "7", "8", "9"}

HexUpper == {"A", "B", "C", "D", "E", "F"}

HexLower == {"a", "b", "c", "d", "e", "f"}

Lower == {"a", "b", "c", "d", "e", "f", "g", "h", "i", "j", "k", "l", "m",
          "n", "o", "p", "q", "r", "s", "t", "u", "v", "w", "x", "y", "z"}

Upper == {"A", "B", "C", "D", "E", "F", "G", "H", "I", "J", "K", "L", "M",
          "N", "O", "P", "Q", "R", "S", "T", "U", "V", "W", "X", "Y", "Z"}

Whitespace == {" ", "\t", "\n"}

Position(row, col) == [row |-> row, col |-> col]

TokenInfo(token, lexeme, start_position) ==
    [token |-> token, lexeme |-> lexeme, start_position |-> start_position]

final_states ==
    {"Int", "Hex", "End", "Multiplication", "Division", "Addition",
     "Subtraction", "EOF", "Identifier", "None", "LeftParantheses",
     "RightParantheses", "LeftBraces", "RightBraces", "Assignment",
     "Semicolon", "For", "While", "Begin", "To", "Console", "Ignore",
     "BWAnd", "BWOr", "Range", "In", "GreaterThan", "LowerThan",
     "Comparison"}

\* transitions_table[from][c]: every entry is None unless set_transition
\* sets it.
create_transitions_table(from, c) ==
    CASE from = "None" ->
           (CASE c = ";" -> "Semicolon"
              [] c = ":" -> "Assignment"
              [] c \in Digits -> "Int"
              [] c = "+" -> "Addition"
              [] c = "-" -> "Subtraction"
              [] c = "*" -> "Multiplication"
              [] c = "/" -> "Division"
              [] c = "&" -> "BWAnd"
              [] c = "|" -> "BWOr"
              [] c = ">" -> "GreaterThan"
              [] c = "<" -> "LowerThan"
              [] c = "=" -> "Comparison"
              [] c = "#" -> "Hex"
              [] c \in Lower \cup Upper -> "Identifier"
              [] c \in Whitespace -> "EOT"
              [] c = "(" -> "LeftParantheses"
              [] c = ")" -> "RightParantheses"
              [] c = "{" -> "LeftBraces"
              [] c = "}" -> "RightBraces"
              [] c = "." -> "Range"
              [] c = GS -> "EOF"
              [] OTHER -> "None")
      [] from = "Assignment" -> IF c = "=" THEN "Assignment" ELSE "None"
      [] from = "Int" -> IF c \in Digits THEN "Int" ELSE "None"
      [] from = "Hex" ->
           IF c \in Digits \cup HexUpper \cup HexLower THEN "Hex" ELSE "None"
      [] from = "Identifier" ->
           IF c \in Digits \cup Lower \cup Upper THEN "Identifier" ELSE "None"
      [] from = "Comparison" -> IF c = "=" THEN "Comparison" ELSE "None"
      [] from = "EOT" -> IF c \in Whitespace THEN "EOT" ELSE "None"
      [] from = "Range" -> IF c = "." THEN "Range" ELSE "None"
      [] OTHER -> "None"

\* A variant of update_position that keeps the column at a newline.
update_position_keep_col(position, code) ==
    IF code = "\n"
    THEN Position(position.row + 1, position.col)
    ELSE Position(position.row, position.col + 1)

\* tokenizer.rs lines 371-382
update_position(position, code) ==
    IF code = "\n"
    THEN Position(position.row + 1, 1)
    ELSE Position(position.row, position.col + 1)

\* s starts with w.
StartsWith(s, w) == Len(s) >= Len(w) /\ SubSeq(s, 1, Len(w)) = w

\* A variant of assign_if_reserved_identifier that takes a lexeme that
\* starts with a reserved word for the reserved word.
assign_if_reserved_prefix(token_info) ==
    CASE StartsWith(token_info.lexeme, <<"f", "o", "r">>) -> "For"
      [] StartsWith(token_info.lexeme, <<"w", "h", "i", "l", "e">>) -> "While"
      [] StartsWith(token_info.lexeme, <<"i", "n">>) -> "In"
      [] StartsWith(token_info.lexeme, <<"b", "e", "g", "i", "n">>) -> "Begin"
      [] StartsWith(token_info.lexeme, <<"e", "n", "d">>) -> "End"
      [] StartsWith(token_info.lexeme, <<"t", "o">>) -> "To"
      [] StartsWith(token_info.lexeme,
                    <<"C", "O", "N", "S", "O", "L", "E">>) -> "Console"
      [] OTHER -> token_info.token

\* tokenizer.rs lines 289-300
assign_if_reserved_identifier(token_info) ==
    CASE token_info.lexeme = <<"f", "o", "r">> -> "For"
      [] token_info.lexeme = <<"w", "h", "i", "l", "e">> -> "While"
      [] token_info.lexeme = <<"i", "n">> -> "In"
      [] token_info.lexeme = <<"b", "e", "g", "i", "n">> -> "Begin"
      [] token_info.lexeme = <<"e", "n", "d">> -> "End"
      [] token_info.lexeme = <<"t", "o">> -> "To"
      [] token_info.lexeme = <<"C", "O", "N", "S", "O", "L", "E">> -> "Console"
      [] OTHER -> token_info.token

\* A reader is [buf: the bytes not read yet, broken: whether read() fails].
\* The result of get_token is [res, token_info, reader, dfa] where res is
\* "Ok", "InvalidPattern" (token_info then holds the error's lexeme and
\* position) or "panic" (read().unwrap() on a failed read).
GetTokenResult(res, token, lexeme, start_position, rd, d) ==
    [res |-> res, token_info |-> TokenInfo(token, lexeme, start_position),
     reader |-> rd, dfa |-> d]

\* tokenizer.rs lines 274-286: the token is finished in state `state`.
get_token_final(state, lexeme, start_position, rd, d) ==
    IF state \in final_states
    THEN LET token == assign_if_reserved_identifier(
                          TokenInfo(state, lexeme, start_position))
         IN  IF token = "None"
             THEN GetTokenResult("Ok", token, lexeme, start_position, rd, d)
             ELSE GetTokenResult("Ok", token, lexeme, d.position, rd, d)
    ELSE GetTokenResult("InvalidPattern", "None", lexeme, start_position, rd, d)

\* tokenizer.rs lines 209-216: the locals of get_token at the top of its
\* loop; token_info.lexeme and token_info.start_position are lexeme and
\* start_position, reader and dfa the two arguments.
Scan(state, code, lexeme, start_position, rd, d) ==
    [state |-> state, code |-> code, lexeme |-> lexeme,
     start_position |-> start_position, reader |-> rd, dfa |-> d]

\* tokenizer.rs line 246
\* A variant of next_state that takes a byte without a transition from the
\* start state for the end of a token, as it takes whitespace.
next_state_lenient(s) ==
    IF /\ s.state = "None"
       /\ s.code # NUL
       /\ create_transitions_table(s.state, s.code) = "None"
    THEN "EOT"
    ELSE create_transitions_table(s.state, s.code)

next_state(s) == create_transitions_table(s.state, s.code)

\* tokenizer.rs lines 260-266: the byte is pushed and the next one is read.
read_next(s, c) ==
    Scan(next_state(s), c, Append(s.lexeme, s.code), s.start_position,
         [s.reader EXCEPT !.buf = Tail(s.reader.buf)],
         [last |-> c, position |-> update_position(s.dfa.position, c)])

RECURSIVE get_token_loop(_)
\* tokenizer.rs lines 245-272: the loop over the bytes of one token.
get_token_loop(s) ==
    CASE next_state(s) \in {"EOT", "EOF"} ->
           get_token_final(s.state, s.lexeme, s.start_position, s.reader,
                           s.dfa)
      [] next_state(s) = "None" /\ s.state = "None" /\ s.code # NUL ->
           GetTokenResult("InvalidPattern", "None", Append(s.lexeme, s.code),
                          s.start_position, s.reader, s.dfa)
      [] next_state(s) = "None" /\ ~(s.state = "None" /\ s.code # NUL) ->
           get_token_final(s.state, s.lexeme, s.start_position, s.reader,
                           s.dfa)
      [] next_state(s) \notin {"EOT", "EOF", "None"} /\ s.reader.broken ->
           GetTokenResult("panic", "None", Append(s.lexeme, s.code),
                          s.start_position, s.reader, s.dfa)
      [] next_state(s) \notin {"EOT", "EOF", "None"} /\ ~s.reader.broken
           /\ Len(s.reader.buf) > 0 ->
           get_token_loop(read_next(s, Head(s.reader.buf)))
      [] OTHER ->
           GetTokenResult("Ok", "EOF", Append(s.lexeme, s.code),
                          s.start_position, s.reader, s.dfa)

\* A variant of get_token that starts with the next byte read and drops
\* the carried byte.
get_token_no_carry(rd, d) ==
    CASE rd.broken ->
           GetTokenResult("panic", "None", <<>>, d.position, rd, d)
      [] ~rd.broken /\ Len(rd.buf) > 0 ->
           get_token_loop(
               Scan("None", Head(rd.buf), <<>>, d.position,
                    [rd EXCEPT !.buf = Tail(rd.buf)],
                    [last |-> NUL,
                     position |-> update_position(d.position, Head(rd.buf))]))
      [] OTHER -> GetTokenResult("Ok", "EOF", <<>>, d.position, rd, d)

\* tokenizer.rs lines 205-230: the carried byte, or the next byte read.
get_token(rd, d) ==
    CASE d.last # NUL ->
           get_token_loop(Scan("None", d.last, <<>>, d.position, rd,
                               [d EXCEPT !.last = NUL]))
      [] d.last = NUL /\ rd.broken ->
           GetTokenResult("panic", "None", <<>>, d.position, rd, d)
      [] d.last = NUL /\ ~rd.broken /\ Len(rd.buf) > 0 ->
           get_token_loop(
               Scan("None", Head(rd.buf), <<>>, d.position,
                    [rd EXCEPT !.buf = Tail(rd.buf)],
                    [d EXCEPT !.position =
                         update_position(d.position, Head(rd.buf))]))
      [] OTHER -> GetTokenResult("Ok", "EOF", <<>>, d.position, rd, d)

(***************************************************************************)
(* parser.rs                                                               *)
(*                                                                         *)
(* A ParserInfo is [tokens, current_token_info, i] and, for the model,     *)
(* matched (what the last match_token returned), err (the Err(..) a rule   *)
(* returned, NoError while there is none) and ok (FALSE once a rule has    *)
(* returned an Err(..) or panicked).                                       *)
(***************************************************************************)
NoToken == TokenInfo("None", <<>>, Position(1, 1))

Error(kind, token_info, string) ==
    [kind |-> kind, token_info |-> token_info, string |-> string]

NoError == Error("Ok", NoToken, <<>>)

Panic == Error("panic", NoToken, <<>>)

\* The panic of tokens[self.i] with self.i no index of tokens.
IndexPanic == Error("panic", NoToken, <<"i">>)

SyntaxErrors ==
    {"Generic", "InvalidFor", "InvalidAssignment", "MissingClosingBrackets",
     "MissingClosingParantheses", "ExpectedStartingBrackets",
     "ExpectedStartingParantheses", "MissingSemicolon"}

Failed(p) == ~p.ok

\* return Err(err), or a panic: nothing more is done with the ParserInfo.
Fail(p, err) == [p EXCEPT !.err = err, !.ok = FALSE, !.matched = FALSE]

Reverse(s) == [k \in 1..Len(s) |-> s[Len(s) + 1 - k]]

\* match_token(e1) || match_token(e2) || ..., `expected` the set of the e's:
\* every call tests tokens[self.i], so at most one of them matches, and all
\* leave the same current_token_info.  tokens[self.i] panics when i is not
\* an index of tokens.
match_any(p, expected) ==
    IF ~p.ok THEN p
    ELSE IF p.i < 0 \/ p.i >= Len(p.tokens) THEN Fail(p, IndexPanic)
    ELSE IF p.tokens[p.i + 1].token \in expected
    THEN [p EXCEPT !.current_token_info = p.tokens[p.i + 1], !.i = p.i + 1,
                   !.matched = TRUE]
    ELSE [p EXCEPT !.current_token_info = p.tokens[p.i + 1],
                   !.matched = FALSE]

match_token(p, expected_token) == match_any(p, {expected_token})

\* format!("{} {}", &string, self.tokens[self.i - counter].lexeme)
format(p, l) == l.string \o <<" ">> \o p.tokens[p.i - l.counter + 1].lexeme

RECURSIVE last_n_loop(_, _)
\* The loop of last_n_token_lexemes: n is never decremented, so the loop
\* ends only when i - counter = 0; i - counter is a usize, and a negative
\* value panics (at the subtraction, or at the index it wraps to).
last_n_loop(p, l) ==
    CASE p.i - l.counter < 0 \/ p.i - l.counter >= Len(p.tokens)
           \/ p.i - (l.counter + 1) < 0 ->
           [panic |-> TRUE, string |-> <<>>]
      [] p.i - l.counter >= 0 /\ p.i - l.counter < Len(p.tokens)
           /\ p.i - (l.counter + 1) = 0 ->
           [panic |-> FALSE, string |-> Reverse(format(p, l))]
      [] OTHER ->
           last_n_loop(p, [counter |-> l.counter + 1,
                           string |-> format(p, l)])

last_n_token_lexemes(p, n) ==
    IF n > 0 THEN last_n_loop(p, [counter |-> 1, string |-> <<>>])
    ELSE [panic |-> FALSE, string |-> <<>>]

\* The Err(..) made of current_token_info and the string l that
\* last_n_token_lexemes returned, or its panic.
FailWithLexemes(p, kind, l) ==
    IF l.panic THEN Fail(p, Panic)
    ELSE Fail(p, Error(kind, p.current_token_info, l.string))

\* Err(Error::<kind>(current_token_info, last_n_token_lexemes(3)))
FailWithContext(p, kind) ==
    IF ~p.ok THEN p ELSE FailWithLexemes(p, kind, last_n_token_lexemes(p, 3))

\* Err(Error::<kind>(current_token_info))
FailAt(p, kind) ==
    IF ~p.ok THEN p ELSE Fail(p, Error(kind, p.current_token_info, <<>>))

\* m is the result of match_token: Err(Error::<kind>(..)) when it is false.
expect_on(m, kind) == IF m.matched THEN m ELSE FailAt(m, kind)

\* if !match_token(expected_token) { return Err(Error::<kind>(..)) }
expect(p, expected_token, kind) ==
    expect_on(match_token(p, expected_token), kind)

RECURSIVE bitwise(_), bitwise_operand(_), bitwise_while(_), bitwise_body(_),
          addition(_), addition_while(_), addition_body(_),
          multiplication(_), multiplication_while(_), multiplication_body(_),
          comparison_operators(_), comparison_operators_while(_),
          comparison_operators_body(_),
          assignment(_), assignment_identifier(_), assignment_assignment(_),
          unary(_), primary(_), primary_on(_), primary_identifier(_),
          primary_parantheses(_), primary_for(_), primary_for_to(_),
          primary_for_begin(_), primary_for_while(_), primary_for_body(_),
          primary_for_end(_), primary_for_semicolon(_), primary_while(_),
          primary_while_braces(_), primary_braces_while(_),
          primary_braces_body(_), primary_braces_next(_)

\* Every rule below takes the ParserInfo at its call and gives the
\* ParserInfo at its return; a rule whose argument r is the result of `..?`
\* returns r when r has failed.
end_of_statement(p) == expect(p, "Semicolon", "MissingSemicolon")

\* bitwise calls addition, addition multiplication, multiplication
\* comparison_operators and comparison_operators unary, each before its own
\* while loop: the operand u is parsed first and the four loops follow,
\* innermost first.
bitwise(p) == bitwise_operand(unary(p))

bitwise_operand(u) ==
    IF u.ok
    THEN bitwise_while(addition_while(multiplication_while(
             comparison_operators_while(u))))
    ELSE u

\* parser.rs lines 109-111
bitwise_while(r) ==
    IF r.ok THEN bitwise_body(match_any(r, {"BWAnd", "BWOr"})) ELSE r

bitwise_body(m) == IF m.matched THEN bitwise_while(addition(m)) ELSE m

addition(p) == addition_while(multiplication(p))

\* parser.rs lines 118-120
addition_while(r) ==
    IF r.ok THEN addition_body(match_any(r, {"Addition", "Subtraction"}))
    ELSE r

addition_body(m) ==
    IF m.matched THEN addition_while(multiplication(m)) ELSE m

multiplication(p) == multiplication_while(comparison_operators(p))

\* parser.rs lines 127-129
multiplication_while(r) ==
    IF r.ok
    THEN multiplication_body(match_any(r, {"Multiplication", "Division"}))
    ELSE r

multiplication_body(m) ==
    IF m.matched THEN multiplication_while(comparison_operators(m)) ELSE m

comparison_operators(p) == comparison_operators_while(unary(p))

\* parser.rs lines 136-138
comparison_operators_while(r) ==
    IF r.ok
    THEN comparison_operators_body(
             match_any(r, {"GreaterThan", "LowerThan", "Comparison"}))
    ELSE r

comparison_operators_body(m) ==
    IF m.matched THEN comparison_operators_while(unary(m)) ELSE m

\* parser.rs lines 144-148
assignment(p) == assignment_identifier(match_token(p, "Identifier"))

assignment_identifier(m) ==
    IF m.matched THEN assignment_assignment(match_token(m, "Assignment"))
    ELSE FailWithContext(m, "InvalidAssignment")

assignment_assignment(m) ==
    IF m.matched THEN bitwise(m) ELSE FailWithContext(m, "InvalidAssignment")

\* parser.rs lines 160-164: primary in both branches
unary(p) == primary(match_any(p, {"Addition", "Subtraction"}))

\* The tokens that the else-if chain of primary matches.
PrimaryTokens ==
    {"Int", "Hex", "Identifier", "LeftParantheses", "For", "While",
     "LeftBraces", "Console"}

primary(p) == primary_on(match_any(p, PrimaryTokens))

\* The branch of primary for the token m matched, or the final else.
primary_on(m) ==
    CASE m.matched /\ m.current_token_info.token \in {"Int", "Hex"} -> m
      [] m.matched /\ m.current_token_info.token = "Identifier" ->
           primary_identifier(match_token(m, "Assignment"))
      [] m.matched /\ m.current_token_info.token = "LeftParantheses" ->
           primary_parantheses(bitwise(m))
      [] m.matched /\ m.current_token_info.token = "For" -> primary_for(m)
      [] m.matched /\ m.current_token_info.token = "While" ->
           primary_while(m)
      [] m.matched /\ m.current_token_info.token = "LeftBraces" ->
           primary_braces_while(m)
      [] m.matched /\ m.current_token_info.token = "Console" -> bitwise(m)
      [] OTHER -> FailWithContext(m, "Generic")

\* parser.rs lines 171-175
primary_identifier(m) == IF m.matched THEN bitwise(m) ELSE m

\* parser.rs lines 177-182
primary_parantheses(r) ==
    IF r.ok THEN expect(r, "RightParantheses", "MissingClosingParantheses")
    ELSE r

\* parser.rs lines 184-185 and 211-213
primary_for(m) ==
    primary_for_to(assignment(
        expect(m, "LeftParantheses", "ExpectedStartingParantheses")))

\* parser.rs lines 186-190
primary_for_to(r) ==
    IF r.ok THEN primary_for_begin(bitwise(expect(r, "To", "InvalidFor")))
    ELSE r

\* parser.rs lines 192-198
primary_for_begin(r) ==
    IF r.ok
    THEN primary_for_while(
             expect(expect(r, "RightParantheses", "MissingClosingParantheses"),
                    "Begin", "MissingClosingParantheses"))
    ELSE r

\* parser.rs lines 200-208: the body of a for statement.
primary_for_while(p) == primary_for_body(match_token(p, "End"))

primary_for_body(m) ==
    IF m.matched \/ ~m.ok THEN m ELSE primary_for_end(bitwise(m))

primary_for_end(r) ==
    IF r.ok THEN primary_for_semicolon(match_token(r, "End")) ELSE r

primary_for_semicolon(m) ==
    IF m.matched \/ ~m.ok THEN m ELSE primary_for_while(end_of_statement(m))

\* parser.rs lines 215-218
primary_while(m) == primary_while_braces(bitwise(m))

primary_while_braces(r) ==
    IF r.ok
    THEN primary_braces_while(
             expect(r, "LeftBraces", "ExpectedStartingBrackets"))
    ELSE r

\* parser.rs lines 219-224 and 228-233: the statements up to `}`.
primary_braces_while(p) ==
    primary_braces_body(match_any(p, {"RightBraces", "EOF"}))

primary_braces_body(m) ==
    CASE m.ok /\ ~m.matched -> primary_braces_next(bitwise(m))
      [] m.ok /\ m.matched /\ m.current_token_info.token = "EOF" ->
           FailAt(m, "MissingClosingBrackets")
      [] OTHER -> m

primary_braces_next(r) == IF r.ok THEN primary_braces_while(r) ELSE r

RECURSIVE parse_while(_), parse_body(_), parse_end(_), parse_semicolon(_)

\* A variant of parse_end without the break of parser.rs lines 97-98: every
\* statement must be followed by a semicolon.
parse_end_semicolon(r) ==
    IF r.ok THEN parse_while(end_of_statement(r)) ELSE r

\* parser.rs lines 95-102
parse_while(p) == parse_body(match_token(p, "EOF"))

parse_body(m) == IF m.matched \/ ~m.ok THEN m ELSE parse_end(bitwise(m))

parse_end(r) == IF r.ok THEN parse_semicolon(match_token(r, "EOF")) ELSE r

parse_semicolon(m) ==
    IF m.matched \/ ~m.ok THEN m ELSE parse_while(end_of_statement(m))

\* parser::parse(tokens): the ParserInfo at the return; its err is the
\* Result (NoError for Ok(())).
parser_parse(tokens) ==
    parse_while([tokens |-> tokens, current_token_info |-> NoToken, i |-> 0,
                 matched |-> FALSE, err |-> NoError, ok |-> TRUE])

(***************************************************************************)
(* eval.rs                                                                 *)
(*                                                                         *)
(* The evaluator's ParserInfo adds variables (the HashMap, a function from *)
(* lexemes to integers) and, for the model, value (the i64 of the last     *)
(* Ok(..)), out (the lines it printed) and trace (what it did, in order:   *)
(* the observations the properties below are stated on).  match_token and  *)
(* last_n_token_lexemes are the same code as in parser.rs.                 *)
(***************************************************************************)
Abs(a) == IF a < 0 THEN -a ELSE a

\* i64 `/`: truncates toward zero (the caller excludes b = 0).
TruncDiv(a, b) ==
    IF (a < 0) = (b < 0) THEN Abs(a) \div Abs(b) ELSE -(Abs(a) \div Abs(b))

RECURSIVE BitAnd(_, _), BitOr(_, _)
\* i64 `&` and `|` on two's complement integers.
BitAnd(a, b) ==
    IF a = 0 \/ b = 0 THEN 0
    ELSE IF a = -1 THEN b
    ELSE IF b = -1 THEN a
    ELSE 2 * BitAnd(a \div 2, b \div 2) + (a % 2) * (b % 2)

BitOr(a, b) ==
    IF a = 0 THEN b
    ELSE IF b = 0 THEN a
    ELSE IF a = -1 \/ b = -1 THEN -1
    ELSE 2 * BitOr(a \div 2, b \div 2)
         + (IF a % 2 = 1 \/ b % 2 = 1 THEN 1 ELSE 0)

HexChars ==
    <<"0", "1", "2", "3", "4", "5", "6", "7", "8", "9",
      "A", "B", "C", "D", "E", "F">>

HexCharsLower ==
    <<"0", "1", "2", "3", "4", "5", "6", "7", "8", "9",
      "a", "b", "c", "d", "e", "f">>

\* The value of digit c in `radix`, or -1 when c is no digit of it.
to_digit(c, radix) ==
    IF \E k \in 1..radix : HexChars[k] = c
    THEN (CHOOSE k \in 1..radix : HexChars[k] = c) - 1
    ELSE IF \E k \in 1..radix : HexCharsLower[k] = c
    THEN (CHOOSE k \in 1..radix : HexCharsLower[k] = c) - 1
    ELSE -1

RECURSIVE from_digits(_, _, _)
from_digits(s, radix, acc) ==
    IF s = <<>> THEN acc
    ELSE from_digits(Tail(s), radix, acc * radix + to_digit(Head(s), radix))

\* i64::from_str_radix(s, radix): [ok, value]; Err on an empty string, on a
\* lone sign and on a character that is no digit.
from_str_radix(s, radix) ==
    LET signed == s # <<>> /\ Head(s) \in {"+", "-"}
        digits == IF signed THEN Tail(s) ELSE s
    IN  IF digits = <<>> \/ \E k \in 1..Len(digits) : to_digit(digits[k], radix) < 0
        THEN [ok |-> FALSE, value |-> 0]
        ELSE [ok |-> TRUE,
              value |-> IF signed /\ Head(s) = "-"
                        THEN -from_digits(digits, radix, 0)
                        ELSE from_digits(digits, radix, 0)]

RECURSIVE trim_start_matches(_, _)
trim_start_matches(s, c) ==
    IF s # <<>> /\ Head(s) = c THEN trim_start_matches(Tail(s), c) ELSE s

\* self.variables.insert(name, value)
insert(map, name, value) ==
    [k \in DOMAIN map \cup {name} |-> IF k = name THEN value ELSE map[k]]

Ok(p, value) == [p EXCEPT !.value = value]

Observe(p, event) == [p EXCEPT !.trace = Append(p.trace, event)]

RECURSIVE evaluate_bitwise(_), evaluate_bitwise_operand(_),
          evaluate_bitwise_while(_),
          evaluate_bitwise_body(_, _), evaluate_bitwise_apply(_, _, _),
          evaluate_additive(_), evaluate_additive_while(_),
          evaluate_additive_body(_, _), evaluate_additive_apply(_, _, _),
          evaluate_multiplicative(_), evaluate_multiplicative_while(_),
          evaluate_multiplicative_body(_, _),
          evaluate_multiplicative_apply(_, _, _),
          evaluate_unary(_), evaluate_unary_on(_), evaluate_unary_minus(_),
          evaluate_primary(_), evaluate_primary_on(_),
          evaluate_primary_identifier(_, _), evaluate_primary_parantheses(_),
          Assign(_, _), Console(_),
          evaluate_for(_), evaluate_for_var(_), evaluate_for_eval(_, _),
          evaluate_for_end_value(_, _), evaluate_for_begin(_, _, _),
          evaluate_for_return(_),
          evaluate_for_while(_, _, _, _, _), evaluate_for_end(_, _, _, _, _)

\* Every rule below takes the ParserInfo at its call and gives the
\* ParserInfo at its return, value being the i64 of its Ok(..); a rule
\* whose argument r is the result of `..?` returns r when r has failed.
eval_end_of_statement(p) == expect(p, "Semicolon", "MissingSemicolon")

\* evaluate_bitwise calls evaluate_additive, evaluate_additive
\* evaluate_multiplicative and evaluate_multiplicative evaluate_unary, each
\* before its own while loop: the operand u is evaluated first and the three
\* loops follow, innermost first.
evaluate_bitwise(p) == evaluate_bitwise_operand(evaluate_unary(p))

evaluate_bitwise_operand(u) ==
    IF u.ok
    THEN evaluate_bitwise_while(evaluate_additive_while(
             evaluate_multiplicative_while(u)))
    ELSE u

\* eval.rs lines 79-87: r.value is `value`.
evaluate_bitwise_while(r) ==
    IF r.ok
    THEN evaluate_bitwise_body(r.value, match_any(r, {"BWAnd", "BWOr"}))
    ELSE r

\* eval.rs lines 80-81: `operator` is read before the next operand.
evaluate_bitwise_body(value, m) ==
    IF m.matched
    THEN evaluate_bitwise_while(
             evaluate_bitwise_apply(value, m.current_token_info.token,
                                    evaluate_additive(m)))
    ELSE m

\* eval.rs lines 82-86: n.value is `next_value`.
evaluate_bitwise_apply(value, operator, n) ==
    IF ~n.ok THEN n
    ELSE CASE operator = "BWAnd" -> Ok(n, BitAnd(value, n.value))
           [] operator = "BWOr" -> Ok(n, BitOr(value, n.value))
           [] OTHER -> FailWithContext(n, "Generic")

evaluate_additive(p) == evaluate_additive_while(evaluate_multiplicative(p))

\* eval.rs lines 93-101: r.value is `value`.
evaluate_additive_while(r) ==
    IF r.ok
    THEN evaluate_additive_body(r.value,
                                match_any(r, {"Addition", "Subtraction"}))
    ELSE r

\* eval.rs lines 94-95
evaluate_additive_body(value, m) ==
    IF m.matched
    THEN evaluate_additive_while(
             evaluate_additive_apply(value, m.current_token_info.token,
                                     evaluate_multiplicative(m)))
    ELSE m

\* eval.rs lines 96-100
evaluate_additive_apply(value, operator, n) ==
    IF ~n.ok THEN n
    ELSE CASE operator = "Addition" -> Ok(n, value + n.value)
           [] operator = "Subtraction" -> Ok(n, value - n.value)
           [] OTHER -> FailWithContext(n, "Generic")

evaluate_multiplicative(p) == evaluate_multiplicative_while(evaluate_unary(p))

\* eval.rs lines 107-115: r.value is `value`.
evaluate_multiplicative_while(r) ==
    IF r.ok
    THEN evaluate_multiplicative_body(
             r.value, match_any(r, {"Multiplication", "Division"}))
    ELSE r

\* eval.rs lines 108-109
evaluate_multiplicative_body(value, m) ==
    IF m.matched
    THEN evaluate_multiplicative_while(
             evaluate_multiplicative_apply(value, m.current_token_info.token,
                                           evaluate_unary(m)))
    ELSE m

\* A variant of evaluate_multiplicative_apply whose division rounds down.
evaluate_multiplicative_apply_floor(value, operator, n) ==
    IF ~n.ok THEN n
    ELSE CASE operator = "Multiplication" -> Ok(n, value * n.value)
           [] operator = "Division" ->
                IF n.value = 0 THEN Fail(n, Panic)
                ELSE Ok(n, IF n.value > 0 THEN value \div n.value
                           ELSE (-value) \div (-n.value))
           [] OTHER -> FailWithContext(n, "Generic")

\* eval.rs lines 110-114.  A division by zero panics.
evaluate_multiplicative_apply(value, operator, n) ==
    IF ~n.ok THEN n
    ELSE CASE operator = "Multiplication" -> Ok(n, value * n.value)
           [] operator = "Division" ->
                IF n.value = 0 THEN Fail(n, Panic)
                ELSE Ok(n, TruncDiv(value, n.value))
           [] OTHER -> FailWithContext(n, "Generic")

\* eval.rs lines 120-126
evaluate_unary(p) ==
    evaluate_unary_on(match_any(p, {"Addition", "Subtraction"}))

evaluate_unary_on(m) ==
    IF m.matched /\ m.current_token_info.token = "Subtraction"
    THEN evaluate_unary_minus(evaluate_primary(m))
    ELSE evaluate_primary(m)

\* eval.rs lines 123-124
evaluate_unary_minus(r) == IF r.ok THEN Ok(r, -r.value) ELSE r

\* lexeme.parse().unwrap() and i64::from_str_radix(..).unwrap()
Unwrap(p, r) == IF r.ok THEN Ok(p, r.value) ELSE Fail(p, Panic)

\* A variant of Assign that yields the value and leaves the map alone.
Assign_no_insert(r, name) == r

\* A variant of Assign that yields what HashMap::insert returns, the value
\* the key had before, or 0.
Assign_yield_previous(r, name) ==
    IF r.ok
    THEN Observe([r EXCEPT !.variables = insert(r.variables, name, r.value),
                           !.out = Append(r.out,
                                          insert(r.variables, name, r.value)),
                           !.value = IF name \in DOMAIN r.variables
                                     THEN r.variables[name] ELSE 0],
                 [ev |-> "assign", name |-> name, value |-> r.value])
    ELSE r

\* eval.rs lines 138-141: r is the result of evaluate_bitwise()?; then the
\* insert, the println! and Ok(value)
Assign(r, name) ==
    IF r.ok
    THEN Observe([r EXCEPT !.variables = insert(r.variables, name, r.value),
                           !.out = Append(r.out,
                                          insert(r.variables, name, r.value))],
                 [ev |-> "assign", name |-> name, value |-> r.value])
    ELSE r

\* A variant of Lookup that reads a missing key as 0 and adds it to the
\* map, as `*self.variables.entry(var.lexeme).or_insert(0)` would.
Lookup_or_insert(p, var) ==
    IF var.lexeme \in DOMAIN p.variables
    THEN Observe(Ok(p, p.variables[var.lexeme]),
                 [ev |-> "read", name |-> var.lexeme,
                  value |-> p.variables[var.lexeme]])
    ELSE Observe(Ok([p EXCEPT !.variables = insert(p.variables, var.lexeme, 0)],
                    0),
                 [ev |-> "read", name |-> var.lexeme, value |-> 0])

\* eval.rs lines 143-146: self.variables.get(&var.lexeme)
Lookup(p, var) ==
    IF var.lexeme \in DOMAIN p.variables
    THEN Observe(Ok(p, p.variables[var.lexeme]),
                 [ev |-> "read", name |-> var.lexeme,
                  value |-> p.variables[var.lexeme]])
    ELSE Fail(p, Error("UndefinedVariable", var, <<>>))

\* eval.rs lines 148-149: r is the result of evaluate_bitwise(), the value
\* the CONSOLE statement yields; nothing is printed.
Console(r) ==
    IF r.ok THEN Observe(r, [ev |-> "console", name |-> <<>>,
                             value |-> r.value])
    ELSE r

\* The tokens that the else-if chain of evaluate_primary matches.
EvaluatePrimaryTokens ==
    {"Int", "Hex", "Identifier", "Console", "LeftParantheses", "For"}

evaluate_primary(p) == evaluate_primary_on(match_any(p, EvaluatePrimaryTokens))

\* The branch of evaluate_primary for the token m matched, or the final
\* else.
evaluate_primary_on(m) ==
    CASE m.matched /\ m.current_token_info.token = "Int" ->
           Unwrap(m, from_str_radix(m.current_token_info.lexeme, 10))
      [] m.matched /\ m.current_token_info.token = "Hex" ->
           Unwrap(m, from_str_radix(
                  trim_start_matches(m.current_token_info.lexeme, "#"), 16))
      [] m.matched /\ m.current_token_info.token = "Identifier" ->
           evaluate_primary_identifier(m.current_token_info,
                                       match_token(m, "Assignment"))
      [] m.matched /\ m.current_token_info.token = "Console" ->
           Console(evaluate_bitwise(m))
      [] m.matched /\ m.current_token_info.token = "LeftParantheses" ->
           evaluate_primary_parantheses(evaluate_bitwise(m))
      [] m.matched /\ m.current_token_info.token = "For" -> evaluate_for(m)
      [] OTHER -> FailWithContext(m, "Generic")

\* eval.rs lines 136-147: var is the identifier's token.
evaluate_primary_identifier(var, m) ==
    IF m.matched THEN Assign(evaluate_bitwise(m), var.lexeme)
    ELSE IF m.ok THEN Lookup(m, var)
    ELSE m

\* eval.rs lines 151-155
evaluate_primary_parantheses(r) ==
    IF r.ok THEN expect(r, "RightParantheses", "MissingClosingParantheses")
    ELSE r

\* A variant of Bind that leaves a control variable the map already holds as
\* it is.
Bind_once(p, var) ==
    IF var \in DOMAIN p.variables
    THEN Observe(p, [ev |-> "bind", name |-> var,
                     value |-> p.variables[var]])
    ELSE Observe([p EXCEPT !.variables = insert(p.variables, var, p.value)],
                 [ev |-> "bind", name |-> var, value |-> p.value])

\* eval.rs line 171: the control variable is bound to the start value
Bind(p, var) ==
    Observe([p EXCEPT !.variables = insert(p.variables, var, p.value)],
            [ev |-> "bind", name |-> var, value |-> p.value])

\* eval.rs lines 165-166; what the match_token calls of evaluate_for return
\* is ignored.
evaluate_for(p) ==
    evaluate_for_var(
        match_token(match_token(p, "LeftParantheses"), "Identifier"))

\* eval.rs lines 167-170
evaluate_for_var(m) ==
    IF m.ok
    THEN evaluate_for_eval(m.current_token_info.lexeme,
                           evaluate_bitwise(match_token(m, "Assignment")))
    ELSE m

\* eval.rs lines 171-173: r.value is `eval`.
evaluate_for_eval(var, r) ==
    IF r.ok
    THEN evaluate_for_end_value(
             var, evaluate_bitwise(match_token(Bind(r, var), "To")))
    ELSE r

\* eval.rs lines 174-176: r.value is `end_value`.
evaluate_for_end_value(var, r) ==
    IF r.ok
    THEN evaluate_for_begin(
             var, r.value,
             match_token(match_token(r, "RightParantheses"), "Begin"))
    ELSE r

\* eval.rs lines 178-179 and the loop
evaluate_for_begin(var, end_value, m) ==
    IF m.ok
    THEN evaluate_for_return(
             evaluate_for_while(m, var, end_value, m.i, m.variables[var]))
    ELSE m

\* eval.rs line 198
evaluate_for_return(r) == IF r.ok THEN Ok(r, 0) ELSE r

\* eval.rs lines 192-193: r is the ParserInfo after lines 183-190.
Step(r, var, control_var) ==
    IF r.ok
    THEN Observe([r EXCEPT !.variables = insert(r.variables, var, control_var)],
                 [ev |-> "step", name |-> var, value |-> control_var])
    ELSE r

\* eval.rs line 187
Rewind(m, var, i) ==
    Observe([m EXCEPT !.i = i], [ev |-> "rewind", name |-> var, value |-> i])

\* eval.rs lines 180-183: `i` is the saved cursor, control_var the local
\* counter; p is the ParserInfo at the test of the while loop.
evaluate_for_while(p, var, end_value, i, control_var) ==
    IF p.ok /\ control_var <= end_value
    THEN evaluate_for_end(
             match_token(
                 evaluate_bitwise(Observe(p, [ev |-> "pass", name |-> var,
                                              value |-> control_var])),
                 "End"),
             var, end_value, i, control_var)
    ELSE p

\* A variant of evaluate_for_end that goes on from the value the body left
\* in the map for the control variable when that value is the larger one.
evaluate_for_end_from_map(m, var, end_value, i, control_var) ==
    LET next == IF m.ok /\ m.variables[var] > control_var
                THEN m.variables[var] + 1
                ELSE control_var + 1
    IN  CASE m.ok /\ ~m.matched ->
               evaluate_for_while(Step(eval_end_of_statement(m), var, next),
                                  var, end_value, i, next)
          [] m.ok /\ m.matched /\ next <= end_value ->
               evaluate_for_while(Step(Rewind(m, var, i), var, next),
                                  var, end_value, i, next)
          [] OTHER -> m

\* A variant of evaluate_for_end that leaves the loop when control_var + 1
\* reaches end_value.
evaluate_for_end_early(m, var, end_value, i, control_var) ==
    CASE m.ok /\ ~m.matched ->
           evaluate_for_while(
               Step(eval_end_of_statement(m), var, control_var + 1),
               var, end_value, i, control_var + 1)
      [] m.ok /\ m.matched /\ control_var + 1 < end_value ->
           evaluate_for_while(Step(Rewind(m, var, i), var, control_var + 1),
                              var, end_value, i, control_var + 1)
      [] OTHER -> m

\* eval.rs lines 183-193, and the next turn of the while loop: m is the
\* result of match_token(End), or the Err(..) of the body.
evaluate_for_end(m, var, end_value, i, control_var) ==
    CASE m.ok /\ ~m.matched ->
           evaluate_for_while(
               Step(eval_end_of_statement(m), var, control_var + 1),
               var, end_value, i, control_var + 1)
      [] m.ok /\ m.matched /\ control_var + 1 <= end_value ->
           evaluate_for_while(Step(Rewind(m, var, i), var, control_var + 1),
                              var, end_value, i, control_var + 1)
      [] OTHER -> m

RECURSIVE eval_parse_while(_, _), eval_parse_body(_, _), eval_parse_end(_, _),
          eval_parse_semicolon(_, _)

\* eval.rs lines 223-230: `result` is the running sum.
eval_parse_while(p, result) == eval_parse_body(match_token(p, "EOF"), result)

eval_parse_body(m, result) ==
    CASE m.ok /\ ~m.matched -> eval_parse_end(evaluate_bitwise(m), result)
      [] m.ok /\ m.matched -> Ok(m, result)
      [] OTHER -> m

\* A variant of eval_parse_end with `result = ...` for `result += ...`.
eval_parse_end_assign(r, result) ==
    IF r.ok
    THEN eval_parse_semicolon(match_token(r, "EOF"), r.value)
    ELSE r

\* eval.rs lines 224-225
eval_parse_end(r, result) ==
    IF r.ok
    THEN eval_parse_semicolon(match_token(r, "EOF"), result + r.value)
    ELSE r

\* A variant of eval_parse_semicolon that goes back to the test of the
\* while loop when EOF was matched, where the code breaks.
eval_parse_semicolon_continue(m, result) ==
    CASE m.ok /\ ~m.matched ->
           eval_parse_while(eval_end_of_statement(m), result)
      [] m.ok /\ m.matched -> eval_parse_while(m, result)
      [] OTHER -> m

\* eval.rs lines 225-229
eval_parse_semicolon(m, result) ==
    CASE m.ok /\ ~m.matched ->
           eval_parse_while(eval_end_of_statement(m), result)
      [] m.ok /\ m.matched -> Ok(m, result)
      [] OTHER -> m

\* eval::parse(tokens, variables): the ParserInfo at the return; err is the
\* Err(..) (NoError for Ok(value)) and variables the map as the call left it.
eval_parse(tokens, map) ==
    eval_parse_while([tokens |-> tokens, current_token_info |-> NoToken,
                      i |-> 0, matched |-> FALSE, err |-> NoError,
                      ok |-> TRUE, variables |-> map, value |-> 0,
                      out |-> <<>>, trace |-> <<>>], 0)

(***************************************************************************)
(* main.rs                                                                 *)
(*                                                                         *)
(* args is the argument list: one file per path, [buf, fault] where buf    *)
(* holds the file's bytes and fault says whether File::open fails          *)
(* ("open"), read() fails ("read") or neither ("none").  argIdx is the     *)
(* argument the loop of main is at and pc the stage it is in.  stdout is   *)
(* what was printed.  hist is the journal the properties are stated on:    *)
(* one entry per file opened, holding the map before and after the file,   *)
(* the stage that ended it and what the evaluator did.                     *)
(***************************************************************************)
File(buf, fault) == [buf |-> buf, fault |-> fault]

\* main.rs lines 9-11
new_variables == (<<"x">> :> 1) @@ (<<"y">> :> 3)

\* tokenizer.rs lines 161-171: last and position of the DFA.
new_dfa == [last |-> NUL, position |-> Position(1, 1)]

NoReader == [buf |-> <<>>, broken |-> FALSE]

\* The journal entry of a file: stage is "scan", "validate" or "eval" while
\* the file is in that stage and "done" once it is finished; ended is the
\* stage that finished it and err its error (NoError for a success);
\* validated says that parser::parse returned, verdict what it returned and
\* tokens what it was given; evalRan says that eval::parse was called, and
\* value, trace and out are what it returned, did and printed.
Opened(map) ==
    [envBefore |-> map, envAfter |-> map, stage |-> "scan",
     ended |-> "none", err |-> NoError, validated |-> FALSE,
     verdict |-> NoError, evalRan |-> FALSE, value |-> 0,
     tokens |-> <<>>, trace |-> <<>>, out |-> <<>>]

Journal(h, entry) == [h EXCEPT ![Len(h)] = entry]

Current == hist[Len(hist)]

\* println!("\n{} in file {}", error, arg)
ErrorLine(err, arg) == [kind |-> "error", value |-> err, file |-> arg]

\* println!("{:?}", self.variables)
VariablesLine(map, arg) == [kind |-> "variables", value |-> map, file |-> arg]

RECURSIVE VariablesLines(_, _)
VariablesLines(out, arg) ==
    IF out = <<>> THEN <<>>
    ELSE <<VariablesLine(Head(out), arg)>> \o VariablesLines(Tail(out), arg)

\* The next iteration of `for arg in args`, or the end of main.
NextArg ==
    /\ argIdx' = argIdx + 1
    /\ pc' = IF argIdx < Len(args) THEN "open" ELSE "done"

\* A variant of tokenize_push without the test of tokenizer.rs line 182.
tokenize_push_all(v, token_info) == Append(v, token_info)

\* tokenizer.rs lines 182-184
tokenize_push(v, token_info) ==
    IF token_info.token # "None" THEN Append(v, token_info) ELSE v

\* A variant of OpenFile that builds the map anew for every file.
OpenFile_new_variables ==
    /\ pc = "open"
    /\ IF args[argIdx].fault = "open"
       THEN /\ pc' = "panicked"
            /\ UNCHANGED <<argIdx, reader, dfa, vec, hist, variables>>
       ELSE /\ pc' = "scan"
            /\ reader' = [buf |-> args[argIdx].buf,
                          broken |-> args[argIdx].fault = "read"]
            /\ dfa' = new_dfa
            /\ vec' = <<>>
            /\ variables' = new_variables
            /\ hist' = Append(hist, Opened(new_variables))
            /\ UNCHANGED argIdx
    /\ UNCHANGED <<args, stdout>>

\* main.rs line 14, and the start of tokenize (tokenizer.rs lines 161-177)
OpenFile ==
    /\ pc = "open"
    /\ IF args[argIdx].fault = "open"
       THEN /\ pc' = "panicked"
            /\ UNCHANGED <<argIdx, reader, dfa, vec, hist>>
       ELSE /\ pc' = "scan"
            /\ reader' = [buf |-> args[argIdx].buf,
                          broken |-> args[argIdx].fault = "read"]
            /\ dfa' = new_dfa
            /\ vec' = <<>>
            /\ hist' = Append(hist, Opened(variables))
            /\ UNCHANGED argIdx
    /\ UNCHANGED <<args, variables, stdout>>

\* What tokenize (tokenizer.rs lines 179-202) does with the result r of one
\* call of get_token and, when r ends the scan, the arm of main that takes
\* the result of tokenize (main.rs lines 16-17).
OnToken(r) ==
    /\ reader' = r.reader
    /\ dfa' = r.dfa
    /\ CASE r.res = "panic" ->
              /\ pc' = "panicked"
              /\ UNCHANGED <<argIdx, vec, stdout, hist>>
         [] r.res = "InvalidPattern" ->
              /\ NextArg
              /\ stdout' = Append(stdout,
                     ErrorLine(Error("InvalidPattern", r.token_info, <<>>),
                               argIdx))
              /\ hist' = Journal(hist,
                     [Current EXCEPT !.stage = "done", !.ended = "scan",
                          !.err = Error("InvalidPattern", r.token_info, <<>>),
                          !.envAfter = variables])
              /\ UNCHANGED vec
         [] r.res = "Ok" /\ r.token_info.token = "EOF" ->
              /\ vec' = Append(vec, TokenInfo("EOF", <<>>, r.dfa.position))
              /\ pc' = "validate"
              /\ hist' = Journal(hist, [Current EXCEPT !.stage = "validate"])
              /\ UNCHANGED <<argIdx, stdout>>
         [] OTHER ->
              /\ vec' = tokenize_push(vec, r.token_info)
              /\ UNCHANGED <<argIdx, pc, stdout, hist>>

\* One call of get_token by tokenize (tokenizer.rs lines 179-202).
GetToken ==
    /\ pc = "scan"
    /\ OnToken(get_token(reader, dfa))
    /\ UNCHANGED <<args, variables>>

\* A variant of OnValidated that goes on to the evaluator whatever the
\* validator returned.
OnValidated_then_evaluate(r) ==
    CASE r.err.kind = "panic" ->
           /\ pc' = "panicked"
           /\ UNCHANGED <<argIdx, stdout, hist>>
      [] r.err.kind = "Ok" ->
           /\ pc' = "eval"
           /\ hist' = Journal(hist,
                  [Current EXCEPT !.stage = "eval", !.validated = TRUE,
                                  !.verdict = r.err, !.tokens = vec])
           /\ UNCHANGED <<argIdx, stdout>>
      [] OTHER ->
           /\ pc' = "eval"
           /\ stdout' = Append(stdout, ErrorLine(r.err, argIdx))
           /\ hist' = Journal(hist,
                  [Current EXCEPT !.stage = "eval", !.validated = TRUE,
                                  !.verdict = r.err, !.tokens = vec])
           /\ UNCHANGED argIdx

\* main.rs lines 18-20: the arms of main on the result r of parser::parse
OnValidated(r) ==
    CASE r.err.kind = "panic" ->
           /\ pc' = "panicked"
           /\ UNCHANGED <<argIdx, stdout, hist>>
      [] r.err.kind = "Ok" ->
           /\ pc' = "eval"
           /\ hist' = Journal(hist,
                  [Current EXCEPT !.stage = "eval", !.validated = TRUE,
                                  !.verdict = r.err, !.tokens = vec])
           /\ UNCHANGED <<argIdx, stdout>>
      [] OTHER ->
           /\ NextArg
           /\ stdout' = Append(stdout, ErrorLine(r.err, argIdx))
           /\ hist' = Journal(hist,
                  [Current EXCEPT !.stage = "done", !.ended = "validate",
                                  !.validated = TRUE, !.verdict = r.err,
                                  !.err = r.err, !.tokens = vec,
                                  !.envAfter = variables])

\* main.rs lines 18-19: parser::parse(&tokens)
Validate ==
    /\ pc = "validate"
    /\ OnValidated(parser_parse(vec))
    /\ UNCHANGED <<args, reader, dfa, vec, variables>>

\* The lines eval::parse wrote, then the line of main for its result r
\* (eval.rs line 140, main.rs lines 20-23).
EvaluateOutput(r) ==
    CASE r.err.kind = "panic" ->
           /\ pc' = "panicked"
           /\ stdout' = stdout \o VariablesLines(r.out, argIdx)
           /\ UNCHANGED argIdx
      [] r.err.kind = "Ok" ->
           /\ NextArg
           /\ stdout' = stdout \o VariablesLines(r.out, argIdx)
      [] OTHER ->
           /\ NextArg
           /\ stdout' = Append(stdout \o VariablesLines(r.out, argIdx),
                               ErrorLine(r.err, argIdx))

\* The map and the record of the file after eval::parse returned r, when
\* the map main holds afterwards is kept.
EvaluateEffect(r, kept) ==
    /\ variables' = kept
    /\ hist' = Journal(hist,
           [Current EXCEPT !.stage = "done", !.ended = "eval",
                           !.err = r.err, !.evalRan = TRUE,
                           !.value = r.value, !.trace = r.trace,
                           !.out = r.out, !.envAfter = kept])
    /\ EvaluateOutput(r)

\* A variant of OnEvaluated where eval::parse works on a copy of the map,
\* kept only when the evaluation succeeds.
OnEvaluated_rollback(r) ==
    EvaluateEffect(r, IF r.err.kind = "Ok" THEN r.variables ELSE variables)

\* main.rs lines 20-23: eval::parse has mutated the map of main in place
OnEvaluated(r) == EvaluateEffect(r, r.variables)

\* main.rs lines 20-23: eval::parse(&tokens, &mut variables)
Evaluate ==
    /\ pc = "eval"
    /\ OnEvaluated(eval_parse(vec, variables))
    /\ UNCHANGED <<args, reader, dfa, vec>>

(***************************************************************************)
(* The inputs and the specifications.                                      *)
(***************************************************************************)
\* The files of Spec, as the bytes they hold.
F_sum == <<"1", "2", "+", "3", ";">>

F_assign == <<"a", ":", "=", "5", ";", " ">>

F_read == <<"a", "+", "x", ";", "\n">>

F_xy == <<"x", "+", "y", ";", "\n">>

F_console == <<"x", ":", "=", "5", ";", "C", "O", "N", "S", "O", "L", "E",
               " ", "x", ";", "\n">>

F_fail == <<"a", ":", "=", "7", ";", "q", ";", "a", ":", "=", "9", ";", " ">>

F_scanerr == <<"a", ":", "=", "8", ";", "@">>

F_syntax == <<"a", ":", "=", "8", " ", "2", ";", " ">>

F_abort == <<";", " ">>

F_compare == <<"1", ">", "2", ";", " ">>

F_for == <<"f", "o", "r", "(", "i", ":", "=", "1", " ", "t", "o", " ", "2",
           ")", "b", "e", "g", "i", "n", " ", "C", "O", "N", "S", "O", "L",
           "E", " ", "i", " ", "e", "n", "d", " ">>

Files ==
    {File(b, "none") : b \in {F_sum, F_assign, F_read, F_xy, F_console,
                              F_fail, F_scanerr, F_syntax, F_abort, F_compare,
                              F_for}}
    \cup {File(F_assign, "open"), File(F_assign, "read")}

\* The bytes of SpecScan: every input over ScanAlphabet up to MaxScanLen
\* bytes, and the inputs the specification names.
ScanAlphabet == {"1", "a", "+", ";", " ", "\n", "@", "#"}

S_hex == <<"#", "F", "F", "+", "1", ";">>

S_at == <<"@">>

S_hex_lower == <<"#", "f", "0", " ">>

\* for while in begin end to CONSOLE
\* fora For to1 console END i1n
S_keywords ==
    <<"f", "o", "r", " ", "w", "h", "i", "l", "e", " ", "i", "n", " ",
      "b", "e", "g", "i", "n", " ", "e", "n", "d", " ", "t", "o", " ",
      "C", "O", "N", "S", "O", "L", "E", "\n", "f", "o", "r", "a", " ",
      "F", "o", "r", " ", "t", "o", "1", " ", "c", "o", "n", "s", "o",
      "l", "e", " ", "E", "N", "D", " ", "i", "1", "n", " ">>

\* a:=1==1;
S_operators == <<"a", ":", "=", "1", "=", "=", "1", ";", "\n">>

S_colon == <<":", " ">>

S_colon_equals == <<":", "=", "=", " ">>

S_equals == <<"=", " ">>

S_three_equals == <<"=", "=", "=", " ">>

ScanNamed ==
    {F_sum, F_console, F_for, S_hex, S_at, F_sum \o <<" ">>, S_hex_lower,
     S_hex \o <<"\n">>, S_keywords, S_operators, S_colon, S_colon_equals,
     S_equals, S_three_equals}

\* The token sequences of SpecTok: every sequence over one of TokAlphabets
\* up to MaxToks tokens, then EOF, and the for statements of ForInputs.
T(token, lexeme) == TokenInfo(token, lexeme, Position(1, 1))

IntTok(n) == T("Int", <<HexChars[n + 1]>>)

Id(c) == T("Identifier", <<c>>)

Sym(token) ==
    T(token,
      CASE token = "Assignment" -> <<":", "=">>
        [] token = "Semicolon" -> <<";">>
        [] token = "Addition" -> <<"+">>
        [] token = "Subtraction" -> <<"-">>
        [] token = "Multiplication" -> <<"*">>
        [] token = "Division" -> <<"/">>
        [] token = "BWAnd" -> <<"&">>
        [] token = "BWOr" -> <<"|">>
        [] token = "GreaterThan" -> <<">">>
        [] token = "LeftParantheses" -> <<"(">>
        [] token = "RightParantheses" -> <<")">>
        [] token = "LeftBraces" -> <<"{">>
        [] token = "RightBraces" -> <<"}">>
        [] token = "For" -> <<"f", "o", "r">>
        [] token = "While" -> <<"w", "h", "i", "l", "e">>
        [] token = "Begin" -> <<"b", "e", "g", "i", "n">>
        [] token = "End" -> <<"e", "n", "d">>
        [] token = "To" -> <<"t", "o">>
        [] token = "Console" -> <<"C", "O", "N", "S", "O", "L", "E">>
        [] token = "EOF" -> <<>>)

TokAlphabets ==
    {{IntTok(1), IntTok(2), Id("x"), Id("a"), Sym("Assignment"),
      Sym("Semicolon"), Sym("Addition"), Sym("GreaterThan")},
     {IntTok(1), Id("x"), Sym("Semicolon"), Sym("LeftBraces"),
      Sym("RightBraces"), Sym("While"), Sym("Console"), Sym("Subtraction")}}

\* for ( v := a to b ) begin body end
ForHead(v, a, b) ==
    <<Sym("For"), Sym("LeftParantheses"), Id(v), Sym("Assignment"), IntTok(a),
      Sym("To"), IntTok(b), Sym("RightParantheses"), Sym("Begin")>>

\* The body statements S of the for statements, for control variable v.
Bodies(v) ==
    {<<Sym("Console"), Id(v)>>,
     <<Id("a"), Sym("Assignment"), Id(v)>>,
     <<IntTok(1)>>}

\* for ( v := a to b ) begin S ; end
ForSemi(v, a, b, S) ==
    ForHead(v, a, b) \o S \o <<Sym("Semicolon"), Sym("End"), Sym("EOF")>>

\* for ( v := a to b ) begin S end
ForEnd(v, a, b, S) == ForHead(v, a, b) \o S \o <<Sym("End"), Sym("EOF")>>

ForInputs ==
    UNION {{ForSemi("i", a, b, S), ForEnd("i", a, b, S)} :
           <<a, b, S>> \in (1..3) \X (1..3) \X Bodies("i")}

\* x:=5;CONSOLE x;
T_console ==
    <<Id("x"), Sym("Assignment"), IntTok(5), Sym("Semicolon"), Sym("Console"),
      Id("x"), Sym("Semicolon"), Sym("EOF")>>

\* 12+3;
T_sum ==
    <<T("Int", <<"1", "2">>), Sym("Addition"), IntTok(3), Sym("Semicolon"),
      Sym("EOF")>>

\* a:=q;
T_undefined ==
    <<Id("a"), Sym("Assignment"), Id("q"), Sym("Semicolon"), Sym("EOF")>>

\* a:=b:=3;a+b;
T_chain ==
    <<Id("a"), Sym("Assignment"), Id("b"), Sym("Assignment"), IntTok(3),
      Sym("Semicolon"), Id("a"), Sym("Addition"), Id("b"), Sym("Semicolon"),
      Sym("EOF")>>

\* b:=1;a:=b+q;
T_partial ==
    <<Id("b"), Sym("Assignment"), IntTok(1), Sym("Semicolon"), Id("a"),
      Sym("Assignment"), Id("b"), Sym("Addition"), Id("q"), Sym("Semicolon"),
      Sym("EOF")>>

\* for (i := 1 to 2) begin 1 end; 2;
T_for_then ==
    ForHead("i", 1, 2) \o <<IntTok(1), Sym("End"), Sym("Semicolon"), IntTok(2),
                            Sym("Semicolon"), Sym("EOF")>>

\* for (i := s := 1 to e := 2) begin 1 end
T_for_effects ==
    <<Sym("For"), Sym("LeftParantheses"), Id("i"), Sym("Assignment"), Id("s"),
      Sym("Assignment"), IntTok(1), Sym("To"), Id("e"), Sym("Assignment"),
      IntTok(2), Sym("RightParantheses"), Sym("Begin"), IntTok(1), Sym("End"),
      Sym("EOF")>>

\* for (i := 1 to 2) begin CONSOLE i; CONSOLE i end
T_for_two ==
    ForHead("i", 1, 2)
    \o <<Sym("Console"), Id("i"), Sym("Semicolon"), Sym("Console"), Id("i"),
         Sym("End"), Sym("EOF")>>

\* for ( i := a to b ) begin for ( j := start to d ) begin CONSOLE j end end
NestedFor(a, b, start, d) ==
    ForHead("i", a, b)
    \o <<Sym("For"), Sym("LeftParantheses"), Id("j"), Sym("Assignment")>>
    \o start
    \o <<Sym("To"), IntTok(d), Sym("RightParantheses"), Sym("Begin"),
         Sym("Console"), Id("j"), Sym("End"), Sym("End"), Sym("EOF")>>

\* The start expressions of the inner loops: 1, 2 and i.
NestedStarts == {<<IntTok(1)>>, <<IntTok(2)>>, <<Id("i")>>}

NestedInputs ==
    {NestedFor(a, b, start, d) :
     <<a, b, start, d>> \in (1..2) \X (1..3) \X NestedStarts \X (2..3)}

\* for ( i := a to E ) begin S end
ForOver(a, E, S) ==
    <<Sym("For"), Sym("LeftParantheses"), Id("i"), Sym("Assignment"),
      IntTok(a), Sym("To")>>
    \o E
    \o <<Sym("RightParantheses"), Sym("Begin")>>
    \o S
    \o <<Sym("End"), Sym("EOF")>>

\* The end expressions 3, y and i := 3; y is 3 in every map of Envs.
EndBounds ==
    {<<IntTok(3)>>, <<Id("y")>>, <<Id("i"), Sym("Assignment"), IntTok(3)>>}

\* The bodies i := 1, i := 5, y := 0, y := 9 and i := y := 0.
AssigningBodies ==
    {<<Id("i"), Sym("Assignment"), IntTok(1)>>,
     <<Id("i"), Sym("Assignment"), IntTok(5)>>,
     <<Id("y"), Sym("Assignment"), IntTok(0)>>,
     <<Id("y"), Sym("Assignment"), IntTok(9)>>,
     <<Id("i"), Sym("Assignment"), Id("y"), Sym("Assignment"), IntTok(0)>>}

AssigningInputs ==
    {ForOver(a, E, S) :
     <<a, E, S>> \in (1..3) \X EndBounds \X AssigningBodies}

\* for (i := 2 to 1) begin 1 end; 2;
T_for_skip ==
    ForHead("i", 2, 1)
    \o <<IntTok(1), Sym("End"), Sym("Semicolon"), IntTok(2), Sym("Semicolon"),
         Sym("EOF")>>

\* a:=7;a/0;
T_div_zero ==
    <<Id("a"), Sym("Assignment"), IntTok(7), Sym("Semicolon"), Id("a"),
      Sym("Division"), IntTok(0), Sym("Semicolon"), Sym("EOF")>>

\* The token sequences of SpecTok given by name.
TokNamed ==
    {T_console, T_sum, T_undefined, T_chain, T_partial, T_for_then,
     T_for_effects, T_for_two, T_for_skip, T_div_zero}

Envs == {new_variables, insert(new_variables, <<"a">>, 2)}

InitCommon ==
    /\ argIdx = 1
    /\ stdout = <<>>
    /\ dfa = new_dfa
    /\ reader = NoReader

\* main before its loop, for every argument list of up to MaxFiles files.
Init ==
    /\ \E k \in 1..MaxFiles : args \in [1..k -> Files]
    /\ pc = "open"
    /\ vec = <<>>
    /\ variables = new_variables
    /\ hist = <<>>
    /\ InitCommon

\* main before its loop, for one file holding up to MaxScanLen bytes of
\* ScanAlphabet, or one of ScanNamed.
InitScan ==
    /\ \/ \E k \in 0..MaxScanLen : \E b \in [1..k -> ScanAlphabet] :
              args = <<File(b, "none")>>
       \/ \E b \in ScanNamed : args = <<File(b, "none")>>
    /\ pc = "open"
    /\ vec = <<>>
    /\ variables = new_variables
    /\ hist = <<>>
    /\ InitCommon

\* main at the call of parser::parse, the tokens being up to MaxToks tokens
\* of one of TokAlphabets and then EOF, one of ForInputs, NestedInputs,
\* AssigningInputs or TokNamed, and the map any of Envs.
InitTok ==
    /\ args = <<File(<<>>, "none")>>
    /\ pc = "validate"
    /\ \/ \E A \in TokAlphabets : \E k \in 0..MaxToks :
              \E s \in [1..k -> A] : vec = s \o <<Sym("EOF")>>
       \/ vec \in ForInputs \cup TokNamed \cup NestedInputs
                  \cup AssigningInputs
    /\ variables \in Envs
    /\ hist = <<[Opened(variables) EXCEPT !.stage = "validate"]>>
    /\ InitCommon

Next == OpenFile \/ GetToken \/ Validate \/ Evaluate

NextTok == Validate \/ Evaluate

Spec == Init /\ [][Next]_vars

SpecScan == InitScan /\ [][Next]_vars

\* The tokens of the expressions of SpecExpr.
ExprAlphabet ==
    {IntTok(2), IntTok(7), Sym("Addition"), Sym("Subtraction"),
     Sym("Multiplication"), Sym("Division"), Sym("BWAnd"), Sym("BWOr")}

\* 2+3*4, 10-3-2, 1|2+4, (2+3)*4, 7-(3-2), -(2+3)*4, (1|2)&(4+2), 7/(-2)
ExprNamed ==
    {<<IntTok(2), Sym("Addition"), IntTok(3), Sym("Multiplication"),
       IntTok(4)>>,
     <<T("Int", <<"1", "0">>), Sym("Subtraction"), IntTok(3),
       Sym("Subtraction"), IntTok(2)>>,
     <<IntTok(1), Sym("BWOr"), IntTok(2), Sym("Addition"), IntTok(4)>>,
     <<Sym("LeftParantheses"), IntTok(2), Sym("Addition"), IntTok(3),
       Sym("RightParantheses"), Sym("Multiplication"), IntTok(4)>>,
     <<IntTok(7), Sym("Subtraction"), Sym("LeftParantheses"), IntTok(3),
       Sym("Subtraction"), IntTok(2), Sym("RightParantheses")>>,
     <<Sym("Subtraction"), Sym("LeftParantheses"), IntTok(2), Sym("Addition"),
       IntTok(3), Sym("RightParantheses"), Sym("Multiplication"), IntTok(4)>>,
     <<Sym("LeftParantheses"), IntTok(1), Sym("BWOr"), IntTok(2),
       Sym("RightParantheses"), Sym("BWAnd"), Sym("LeftParantheses"),
       IntTok(4), Sym("Addition"), IntTok(2), Sym("RightParantheses")>>,
     <<IntTok(7), Sym("Division"), Sym("LeftParantheses"), Sym("Subtraction"),
       IntTok(2), Sym("RightParantheses")>>}

\* main at the call of parser::parse, the tokens being up to MaxExprToks
\* tokens of ExprAlphabet or one of ExprNamed, with or without a semicolon,
\* and then EOF.
InitExpr ==
    /\ args = <<File(<<>>, "none")>>
    /\ pc = "validate"
    /\ \E semi \in {<<>>, <<Sym("Semicolon")>>} :
           \/ \E k \in 0..MaxExprToks : \E s \in [1..k -> ExprAlphabet] :
                  vec = s \o semi \o <<Sym("EOF")>>
           \/ \E s \in ExprNamed : vec = s \o semi \o <<Sym("EOF")>>
    /\ variables = new_variables
    /\ hist = <<[Opened(variables) EXCEPT !.stage = "validate"]>>
    /\ InitCommon

SpecExpr == InitExpr /\ [][NextTok]_vars

SpecTok == InitTok /\ [][NextTok]_vars

(***************************************************************************)
(* The properties.                                                         *)
(***************************************************************************)
Last(s) == s[Len(s)]

Front(s) == SubSeq(s, 1, Len(s) - 1)

Kinds(ts) == [k \in DOMAIN ts |-> ts[k].token]

RECURSIVE Flatten(_)
Flatten(ss) == IF ss = <<>> THEN <<>> ELSE Head(ss) \o Flatten(Tail(ss))

Lexemes(ts) == Flatten([k \in DOMAIN ts |-> ts[k].lexeme])

\* The values of the events of kind ev in a trace, in order.
Values(trace, ev) ==
    LET sel == SelectSeq(trace, LAMBDA e : e.ev = ev) IN
    [k \in DOMAIN sel |-> sel[k].value]

\* The integers written to standard output for file k, one per line.
ValuesWritten(k) ==
    LET sel == SelectSeq(stdout, LAMBDA l : l.kind = "value" /\ l.file = k) IN
    [j \in DOMAIN sel |-> sel[j].value]

\* The map after the inserts of a trace, in order, on map.
RECURSIVE Replay(_, _)
Replay(map, trace) ==
    IF trace = <<>> THEN map
    ELSE Replay(IF Head(trace).ev \in {"assign", "bind", "step"}
                THEN insert(map, Head(trace).name, Head(trace).value)
                ELSE map,
                Tail(trace))

\* File k is finished, and stage `ended` finished it with an Err(..).
FailedIn(k, ended) ==
    /\ hist[k].stage = "done"
    /\ hist[k].ended = ended
    /\ hist[k].err.kind \notin {"Ok", "panic"}

\* C1: when the validator accepts a token sequence, the evaluator does not
\* fail on it with a syntax-class error.
C1_ValidatedNeverSyntaxError ==
    \A k \in DOMAIN hist :
        (hist[k].validated /\ hist[k].verdict.kind = "Ok" /\ hist[k].evalRan)
            => hist[k].err.kind \notin SyntaxErrors

\* C2: the evaluation of `for (v := a to b) begin S; end` with a <= b
\* succeeds and runs S once for each of a, a+1, ..., b, in this order.
C2_ForSemiRunsEachValue ==
    \A a \in 1..3, b \in 1..3, S \in Bodies("i") :
        (/\ a <= b
         /\ hist # <<>>
         /\ Current.evalRan
         /\ Current.tokens = ForSemi("i", a, b, S))
            => /\ Current.err.kind = "Ok"
               /\ Values(Current.trace, "pass") = [k \in 1..(b - a + 1) |->
                                                      a + k - 1]

\* C3: after a successful evaluation, the integers written to standard
\* output are the values of the CONSOLE statements executed, in order.
C3_ConsoleWritesValues ==
    \A k \in DOMAIN hist :
        (hist[k].evalRan /\ hist[k].err.kind = "Ok")
            => ValuesWritten(k) = Values(hist[k].trace, "console")

\* The bytes that start or continue a lexeme of the scanner.
LexemeBytes ==
    Digits \cup Lower \cup Upper
    \cup {";", ":", "=", "+", "-", "*", "/", "&", "|", ">", "<", "#", "(",
          ")", "{", "}", "."}

\* C4: a scan of valid lexemes yields one token per lexeme, in order, the
\* last one included when the input ends right after it: the lexemes of
\* the tokens make up the input without its whitespace, and `12+3;` yields
\* Int, Addition, Int, Semicolon, EOF.
C4_OneTokenPerLexeme ==
    (/\ pc = "validate"
     /\ \A k \in DOMAIN args[1].buf :
            args[1].buf[k] \in LexemeBytes \cup Whitespace)
        => /\ Lexemes(vec) =
                  SelectSeq(args[1].buf, LAMBDA c : c \notin Whitespace)
           /\ args[1].buf = F_sum
                  => Kinds(vec) =
                         <<"Int", "Addition", "Int", "Semicolon", "EOF">>

Scanned == hist # <<>> /\ Current.stage \in {"validate", "eval"}

\* C6: the token sequence tokenize returns is not empty, ends with an EOF
\* token of empty lexeme, and holds before it no EOF, None, Ignore, EOT or
\* Error token and no empty lexeme.
C6_TokenStream ==
    Scanned =>
        /\ Len(vec) >= 1
        /\ Last(vec).token = "EOF"
        /\ Last(vec).lexeme = <<>>
        /\ \A k \in 1..(Len(vec) - 1) :
               /\ vec[k].token \notin {"EOF", "None", "Ignore", "EOT", "Error"}
               /\ vec[k].lexeme # <<>>

\* C6, witness: a scan that met whitespace returned two tokens and EOF.
C6_Witness ==
    /\ Scanned
    /\ Len(vec) = 3
    /\ \E k \in DOMAIN args[1].buf : args[1].buf[k] \in Whitespace

\* C7: a file whose scan or validation fails is not evaluated and leaves
\* the map as it was, and the evaluator runs only on what the validator
\* accepted.
C7_FailedFileLeavesMap ==
    \A k \in DOMAIN hist :
        /\ (FailedIn(k, "scan") \/ FailedIn(k, "validate"))
               => /\ ~hist[k].evalRan
                  /\ hist[k].envAfter = hist[k].envBefore
                  /\ (k = Len(hist) => variables = hist[k].envBefore)
        /\ (hist[k].evalRan \/ hist[k].stage = "eval")
               => /\ hist[k].validated
                  /\ hist[k].verdict.kind = "Ok"
                  /\ (k = Len(hist) => hist[k].tokens = vec)

\* C7, witness: a file failed in the scan, the next one in the validation.
C7_Witness ==
    /\ Len(hist) = 2
    /\ FailedIn(1, "scan")
    /\ FailedIn(2, "validate")
    /\ hist[1].envBefore = new_variables

\* C8: when the evaluation of a file fails, the map holds the inserts made
\* up to the failure and nothing else, and the next file starts from it.
C8_FailedEvaluationKeepsMap ==
    \A k \in DOMAIN hist :
        FailedIn(k, "eval") =>
            /\ hist[k].envAfter = Replay(hist[k].envBefore, hist[k].trace)
            /\ (k = Len(hist) => variables = hist[k].envAfter)
            /\ (k < Len(hist) => hist[k + 1].envBefore = hist[k].envAfter)
            /\ args[k].buf = F_fail
                   => /\ hist[k].err.kind = "UndefinedVariable"
                      /\ hist[k].envAfter[<<"a">>] = 7

\* C8, witness: `a:=7;q;a:=9;` failed at q after a file that set a to 5,
\* and left a at 7.
C8_Witness ==
    /\ Len(hist) = 2
    /\ args[1].buf = F_assign
    /\ hist[1].envAfter[<<"a">>] = 5
    /\ args[2].buf = F_fail
    /\ FailedIn(2, "eval")
    /\ variables[<<"a">>] = 7

\* File k wrote variable n: it assigned it, or bound or stepped it as the
\* control variable of a for statement.
Writes(k, n) ==
    \E e \in DOMAIN hist[k].trace :
        /\ hist[k].trace[e].ev \in {"assign", "bind", "step"}
        /\ hist[k].trace[e].name = n

\* C9: the map holds x = 1 and y = 3 when the first file is opened, every
\* file starts from the map the file before it left, a variable that file j
\* wrote and no file between j and k wrote has in file k the value file j
\* left, x and y can be read in the first file, and `a+x;` after `a:=5;`
\* reads the 5.
C9_MapThreadedThroughFiles ==
    \A k \in DOMAIN hist :
        /\ k = 1 => hist[k].envBefore = (<<"x">> :> 1) @@ (<<"y">> :> 3)
        /\ k > 1 => hist[k].envBefore = hist[k - 1].envAfter
        /\ (k = Len(hist) /\ hist[k].stage # "done")
               => variables = hist[k].envBefore
        /\ \A j \in 1..(k - 1) : \A n \in DOMAIN hist[j].envAfter :
               (Writes(j, n) /\ \A i \in (j + 1)..(k - 1) : ~Writes(i, n))
                   => /\ n \in DOMAIN hist[k].envBefore
                      /\ hist[k].envBefore[n] = hist[j].envAfter[n]
        /\ (hist[k].evalRan /\ args[k].buf = F_xy)
               => /\ hist[k].err.kind = "Ok"
                  /\ hist[k].value = hist[k].envBefore[<<"x">>]
                                     + hist[k].envBefore[<<"y">>]
                  /\ k = 1 => hist[k].value = 4
        /\ (hist[k].evalRan /\ args[k].buf = F_read /\ k > 1
            /\ args[k - 1].buf = F_assign /\ hist[k - 1].err.kind = "Ok")
               => /\ hist[k].err.kind = "Ok"
                  /\ hist[k].value = 5 + hist[k].envBefore[<<"x">>]
                  /\ k = 2 => hist[k].value = 6

\* C9, witness: `a:=5;` then `a+x;` evaluated to 6.
C9_Witness ==
    /\ Len(hist) = 2
    /\ args[1].buf = F_assign
    /\ args[2].buf = F_read
    /\ hist[2].evalRan
    /\ hist[2].err.kind = "Ok"
    /\ hist[2].value = 6

\* C10: a failure for one file is reported and is never fatal: when main
\* is not in a stage of a file, every file of args was processed, every
\* failure has its line on standard output, and a failed read is the
\* scanner's InvalidStream error.
C10_FailureNeverFatal ==
    pc \notin {"open", "scan", "validate", "eval"} =>
        /\ Len(hist) = Len(args)
        /\ \A k \in DOMAIN hist :
               /\ hist[k].stage = "done"
               /\ hist[k].err.kind # "Ok"
                      => \E j \in DOMAIN stdout :
                             /\ stdout[j].kind = "error"
                             /\ stdout[j].file = k
                             /\ stdout[j].value = hist[k].err
               /\ args[k].fault = "read"
                      => hist[k].err.kind = "InvalidStream"

\* The map of file k just before event i of its trace.
MapAt(k, i) == Replay(hist[k].envBefore, SubSeq(hist[k].trace, 1, i - 1))

\* The names file k wrote.
Written(k) ==
    {hist[k].trace[e].name : e \in {e \in DOMAIN hist[k].trace :
         hist[k].trace[e].ev \in {"assign", "bind", "step"}}}

\* C11: an identifier that is read yields the value the map holds for it,
\* and the evaluation fails with UndefinedVariable carrying the token of
\* that identifier when the map has no such key; a read adds no key, and an
\* assignment whose right-hand side fails binds nothing: after `a:=q;` and
\* after `b:=1;a:=b+q;` the map has for a what it had before.
C11_ReadAndFailedAssignment ==
    \A k \in DOMAIN hist :
        hist[k].evalRan =>
            LET h == hist[k]
                ts == hist[k].tokens
            IN  /\ \A i \in DOMAIN h.trace :
                       h.trace[i].ev = "read"
                           => /\ h.trace[i].name \in DOMAIN MapAt(k, i)
                              /\ h.trace[i].value
                                     = MapAt(k, i)[h.trace[i].name]
                /\ h.err.kind = "UndefinedVariable"
                       => /\ h.err.token_info.token = "Identifier"
                          /\ h.err.token_info.lexeme \notin DOMAIN h.envAfter
                          /\ \E j \in 1..(Len(ts) - 1) :
                                 /\ ts[j] = h.err.token_info
                                 /\ ts[j + 1].token # "Assignment"
                /\ h.envAfter = Replay(h.envBefore, h.trace)
                /\ DOMAIN h.envAfter = DOMAIN h.envBefore \cup Written(k)
                /\ (/\ Len(ts) >= 2
                    /\ ts[1].token = "Identifier"
                    /\ ts[2].token # "Assignment")
                       => IF ts[1].lexeme \in DOMAIN h.envBefore
                          THEN /\ h.trace # <<>>
                               /\ h.trace[1] =
                                      [ev |-> "read", name |-> ts[1].lexeme,
                                       value |-> h.envBefore[ts[1].lexeme]]
                          ELSE /\ h.err = Error("UndefinedVariable", ts[1],
                                                <<>>)
                               /\ h.envAfter = h.envBefore
                /\ ts = T_undefined
                       => /\ h.err = Error("UndefinedVariable", Id("q"), <<>>)
                          /\ h.envAfter = h.envBefore
                /\ ts = T_partial
                       => /\ h.err = Error("UndefinedVariable", Id("q"), <<>>)
                          /\ h.envAfter = insert(h.envBefore, <<"b">>, 1)

\* C11, witness: `b:=1;a:=b+q;` failed at q with a bound to 2 before, and
\* a is still 2.
C11_Witness ==
    /\ hist # <<>>
    /\ Current.evalRan
    /\ Current.tokens = T_partial
    /\ Current.envBefore[<<"a">>] = 2
    /\ Current.err.kind = "UndefinedVariable"
    /\ variables[<<"a">>] = 2
    /\ variables[<<"b">>] = 1

\* The identifiers of a token sequence that stand on the left of `:=`.
AssignedIn(ts) ==
    {ts[j].lexeme : j \in {j \in 1..(Len(ts) - 1) :
         ts[j].token = "Identifier" /\ ts[j + 1].token = "Assignment"}}

\* C12: after any sequence of files, the keys of the map are x, y and the
\* names the evaluations so far have assigned or bound as the control
\* variable of a for statement: each of them stands on the left of `:=` in
\* its file, a file evaluated to its end has bound every name that stands
\* there, and no file removes a key.
C12_KeysAreAssignedNames ==
    \A k \in DOMAIN hist :
        /\ DOMAIN hist[k].envBefore =
               {<<"x">>, <<"y">>} \cup UNION {Written(j) : j \in 1..(k - 1)}
        /\ DOMAIN hist[k].envBefore \subseteq DOMAIN hist[k].envAfter
        /\ hist[k].stage = "done"
               => DOMAIN hist[k].envAfter =
                      {<<"x">>, <<"y">>} \cup UNION {Written(j) : j \in 1..k}
        /\ k = Len(hist)
               => DOMAIN variables =
                      {<<"x">>, <<"y">>} \cup UNION {Written(j) : j \in 1..k}
        /\ hist[k].evalRan
               => /\ Written(k) \subseteq AssignedIn(hist[k].tokens)
                  /\ hist[k].err.kind = "Ok"
                         => AssignedIn(hist[k].tokens) \subseteq Written(k)

\* C12, witness: after `a:=5;` and the for statement over i, the keys are
\* a, i, x and y.
C12_Witness ==
    /\ Len(hist) = 2
    /\ args[1].buf = F_assign
    /\ args[2].buf = F_for
    /\ hist[2].stage = "done"
    /\ hist[2].err.kind = "Ok"
    /\ DOMAIN variables = {<<"a">>, <<"i">>, <<"x">>, <<"y">>}

\* C13: `name := e` evaluates e, binds name to its value, which replaces
\* the value name had and leaves every other key as e left it, and yields
\* that value: the statement `name := e` has the value and the map of the
\* statement e, with name bound to the value, and `a:=b:=3;a+b;` binds a
\* and b to 3.
C13_AssignmentBindsAndYields ==
    \A k \in DOMAIN hist :
        hist[k].evalRan =>
            LET h == hist[k]
                ts == hist[k].tokens
                n == Len(hist[k].tokens)
                e == SubSeq(hist[k].tokens, 3, Len(hist[k].tokens))
            IN  /\ (/\ n >= 4
                    /\ ts[1].token = "Identifier"
                    /\ ts[2].token = "Assignment"
                    /\ \A j \in 3..n : ts[j].token # "Semicolon"
                    /\ eval_parse(e, h.envBefore).err.kind = "Ok")
                       => /\ h.err.kind = "Ok"
                          /\ h.value = eval_parse(e, h.envBefore).value
                          /\ h.envAfter =
                                 insert(eval_parse(e, h.envBefore).variables,
                                        ts[1].lexeme, h.value)
                          /\ Last(h.trace) = [ev |-> "assign",
                                              name |-> ts[1].lexeme,
                                              value |-> h.value]
                /\ ts = T_chain
                       => /\ h.err.kind = "Ok"
                          /\ h.envAfter =
                                 insert(insert(h.envBefore, <<"a">>, 3),
                                        <<"b">>, 3)
                          /\ h.value = 9

\* C13, witness: `a:=x` was evaluated with a bound to 2 before; a is 1
\* now, the value of x, and x and y are what they were.
C13_Witness ==
    /\ hist # <<>>
    /\ Current.evalRan
    /\ Kinds(Current.tokens) = <<"Identifier", "Assignment", "Identifier", "EOF">>
    /\ Current.tokens[1].lexeme = <<"a">>
    /\ Current.tokens[3].lexeme = <<"x">>
    /\ Current.envBefore = insert(new_variables, <<"a">>, 2)
    /\ Current.value = 1
    /\ variables = insert(new_variables, <<"a">>, 1)

\* C13, witness: `a:=b:=3;a+b;` was evaluated and bound a and b to 3.
C13_WitnessChain ==
    /\ hist # <<>>
    /\ Current.evalRan
    /\ Current.tokens = T_chain
    /\ variables[<<"a">>] = 3
    /\ variables[<<"b">>] = 3

\* The index of the first Semicolon token of ts, or Len(ts) if it has none.
FirstSemicolon(ts) ==
    LET at == {j \in DOMAIN ts : ts[j].token = "Semicolon"} IN
    IF at = {} THEN Len(ts) ELSE CHOOSE j \in at : \A i \in at : j <= i

\* The sum of the values of the statements of ts, a token sequence without
\* for statements that ends with EOF, each statement evaluated by itself on
\* the map the statements before it left.
RECURSIVE SumOfStatements(_, _)
SumOfStatements(ts, map) ==
    IF Len(ts) <= 1 THEN 0
    ELSE LET j == FirstSemicolon(ts)
             r == eval_parse(SubSeq(ts, 1, j - 1) \o <<Last(ts)>>, map)
         IN  r.value + SumOfStatements(SubSeq(ts, j + 1, Len(ts))
                                       \o (IF j = Len(ts) THEN <<Last(ts)>>
                                           ELSE <<>>),
                                       r.variables)

\* C14: eval::parse returns the sum of the values of the statements up to
\* EOF; a for statement counts 0, `12+3;` returns 15 and leaves the map as
\* it was, `x:=5;CONSOLE x;` returns 10.
C14_ParseReturnsSum ==
    \A k \in DOMAIN hist :
        /\ (hist[k].evalRan
            /\ hist[k].tokens \in {T_sum, T_console, T_for_then})
               => hist[k].err.kind = "Ok"
        /\ (hist[k].evalRan /\ hist[k].err.kind = "Ok") =>
            LET h == hist[k]
                ts == hist[k].tokens
            IN  /\ (\A j \in DOMAIN ts : ts[j].token # "For")
                       => h.value = SumOfStatements(ts, h.envBefore)
                /\ ts \in ForInputs => h.value = 0
                /\ ts = T_for_then => h.value = 2
                /\ ts = T_console => h.value = 10
                /\ ts = T_sum => h.value = 15 /\ h.envAfter = h.envBefore

\* C14, witness: the tokens of `12+3;` were evaluated to 15.
C14_Witness ==
    /\ hist # <<>>
    /\ Current.evalRan
    /\ Current.tokens = T_sum
    /\ Current.value = 15
    /\ variables = Current.envBefore

\* C15: a Hex token of the scanner evaluates to the base-16 value of the
\* characters after its `#` and never aborts: a file of one Hex token is
\* evaluated to that value, and `#FF+1;` to 256.
C15_HexEvaluates ==
    \A k \in DOMAIN hist :
        hist[k].evalRan =>
            /\ Kinds(hist[k].tokens) = <<"Hex", "EOF">>
                   => /\ hist[k].err.kind = "Ok"
                      /\ hist[k].value =
                             from_digits(Tail(hist[k].tokens[1].lexeme), 16, 0)
            /\ (\E j \in DOMAIN hist[k].tokens : hist[k].tokens[j].token = "Hex")
                   => hist[k].err.kind # "panic"
            /\ args[k].buf \in {S_hex, S_hex \o <<"\n">>}
                   => hist[k].err.kind = "Ok" /\ hist[k].value = 256

\* The indices of the bytes of buf that have no transition from the start
\* state of the scanner.
Unrecognized(buf) ==
    {j \in DOMAIN buf : buf[j] \notin LexemeBytes \cup Whitespace \cup {NUL}}

\* The number of newline bytes among the first n bytes of buf.
Newlines(buf, n) == Cardinality({j \in 1..n : buf[j] = "\n"})

\* C16: the scan of a file fails exactly when the file holds a byte without
\* a transition from the start state; it fails at the first such byte with
\* InvalidPattern, whose lexeme is that byte and whose row is 1 plus the
\* number of newlines before it; the bytes after it are not read, and no
\* token sequence reaches the validator.
C16_UnrecognizedByteFails ==
    LET buf == args[1].buf
        j == CHOOSE j \in Unrecognized(buf) :
                 \A i \in Unrecognized(buf) : j <= i
    IN  /\ (hist # <<>> /\ FailedIn(1, "scan"))
               => /\ Unrecognized(buf) # {}
                  /\ hist[1].err.kind = "InvalidPattern"
                  /\ hist[1].err.token_info.lexeme = <<buf[j]>>
                  /\ hist[1].err.token_info.start_position.row
                         = 1 + Newlines(buf, j - 1)
                  /\ reader.buf = SubSeq(buf, j + 1, Len(buf))
                  /\ ~hist[1].validated
                  /\ hist[1].tokens = <<>>
        /\ (hist # <<>> /\ Unrecognized(buf) # {})
               => /\ hist[1].stage \in {"scan", "done"}
                  /\ hist[1].stage = "done" => FailedIn(1, "scan")
                  /\ hist[1].stage = "scan"
                         => Len(reader.buf) >= Len(buf) - j

\* C16, witness: the scan of `a`, newline, `@`, `1` failed at the `@` in
\* row 2 and left the `1` unread.
C16_Witness ==
    /\ hist # <<>>
    /\ FailedIn(1, "scan")
    /\ args[1].buf = <<"a", "\n", "@", "1">>
    /\ hist[1].err.token_info.lexeme = <<"@">>
    /\ hist[1].err.token_info.start_position.row = 2
    /\ reader.buf = <<"1">>

\* The row and column of byte j of buf, both counted from 1.
PositionOf(buf, j) ==
    LET before == {i \in 1..(j - 1) : buf[i] = "\n"}
        line == IF before = {} THEN 0
                ELSE CHOOSE i \in before : \A h \in before : h <= i
    IN  Position(1 + Cardinality(before), j - line)

\* The indices of the bytes of buf that are not whitespace, in order.
LexemeIndices(buf) ==
    SelectSeq([j \in DOMAIN buf |-> j], LAMBDA j : buf[j] \notin Whitespace)

\* The number of bytes in the lexemes of the first n tokens of ts.
LexemeBytesBefore(ts, n) == Len(Lexemes(SubSeq(ts, 1, n)))

\* C17: the position stored in a token other than EOF is the position of
\* the first byte of its lexeme in the file, also when a newline follows
\* the token.
C17_TokenStartPosition ==
    Scanned =>
        \A k \in 1..(Len(vec) - 1) :
            vec[k].start_position =
                PositionOf(args[1].buf,
                           LexemeIndices(args[1].buf)[
                               LexemeBytesBefore(vec, k - 1) + 1])

\* The bytes of the file that the scanner has read.
Consumed == Len(args[1].buf) - Len(reader.buf)

\* C18: the running position of the scanner is row 1, column 1 before the
\* first byte; a newline moves it to column 1 of the next row and any other
\* byte one column on, so that after n bytes it is where byte n + 1 stands;
\* every row and column of it, of a token and of a scan error is at least 1.
C18_PositionsFromOne ==
    /\ dfa.position.row >= 1
    /\ dfa.position.col >= 1
    /\ hist = <<>> => dfa.position = Position(1, 1)
    /\ hist # <<>> => dfa.position = PositionOf(args[1].buf, Consumed + 1)
    /\ \A k \in DOMAIN vec :
           vec[k].start_position.row >= 1 /\ vec[k].start_position.col >= 1
    /\ \A k \in DOMAIN hist :
           /\ hist[k].err.token_info.start_position.row >= 1
           /\ hist[k].err.token_info.start_position.col >= 1

\* C18, witness: `a`, newline, `1`, space were read, and the running
\* position is row 2, column 3.
C18_Witness ==
    /\ Scanned
    /\ args[1].buf = <<"a", "\n", "1", " ">>
    /\ reader.buf = <<>>
    /\ dfa.position = Position(2, 3)

\* The reserved words, by the kind of their token.
ReservedWords ==
    [For |-> <<"f", "o", "r">>, While |-> <<"w", "h", "i", "l", "e">>,
     In |-> <<"i", "n">>, Begin |-> <<"b", "e", "g", "i", "n">>,
     End |-> <<"e", "n", "d">>, To |-> <<"t", "o">>,
     Console |-> <<"C", "O", "N", "S", "O", "L", "E">>]

\* The kind of the token of a run of letters and digits.
KindOfRun(lexeme) ==
    IF \E w \in DOMAIN ReservedWords : ReservedWords[w] = lexeme
    THEN CHOOSE w \in DOMAIN ReservedWords : ReservedWords[w] = lexeme
    ELSE "Identifier"

\* Byte j of buf starts a run of letters and digits with a letter: no
\* letter and no digit stands before it, and it is no hex digit after `#`,
\* which the Hex token takes.
StartsRun(buf, j) ==
    /\ buf[j] \in Lower \cup Upper
    /\ j > 1 => /\ buf[j - 1] \notin Lower \cup Upper \cup Digits
                /\ ~(buf[j - 1] = "#" /\ buf[j] \in HexUpper \cup HexLower)

\* The maximal runs of letters and digits of buf that start with a letter,
\* in order.
Runs(buf) ==
    LET alnum == Lower \cup Upper \cup Digits
        first == SelectSeq([j \in DOMAIN buf |-> j],
                           LAMBDA j : StartsRun(buf, j))
        last(j) == CHOOSE e \in j..Len(buf) :
                       /\ \A i \in j..e : buf[i] \in alnum
                       /\ e < Len(buf) => buf[e + 1] \notin alnum
    IN  [r \in DOMAIN first |-> SubSeq(buf, first[r], last(first[r]))]

WithoutWhitespace(buf) == SelectSeq(buf, LAMBDA c : c \notin Whitespace)

\* The byte the scanner carries from the token before: 1 if there is one.
Carried == IF dfa.last # NUL THEN 1 ELSE 0

\* C20: in the scan of a file of valid bytes no byte is lost and none is
\* used twice where one token ends and the next begins: between two calls
\* of get_token the byte carried is the last byte read, and the lexemes of
\* the tokens so far are the bytes read before it without their
\* whitespace; when the file ends with whitespace, the lexemes of the
\* tokens returned are the file without its whitespace.
C20_NoByteLostAtBoundary ==
    (/\ hist # <<>>
     /\ \A k \in DOMAIN args[1].buf :
            args[1].buf[k] \in LexemeBytes \cup Whitespace)
        => /\ pc = "scan"
                  => /\ Carried = 1 => /\ Consumed >= 1
                                       /\ dfa.last = args[1].buf[Consumed]
                     /\ Lexemes(vec) =
                            WithoutWhitespace(
                                SubSeq(args[1].buf, 1, Consumed - Carried))
           /\ (/\ hist[1].stage # "scan"
               /\ args[1].buf # <<>>
               /\ Last(args[1].buf) \in Whitespace)
                  => /\ ~FailedIn(1, "scan")
                     /\ Scanned
                            => Lexemes(vec) = WithoutWhitespace(args[1].buf)
                     /\ hist[1].validated
                            => Lexemes(hist[1].tokens) =
                                   WithoutWhitespace(args[1].buf)

\* C20, witness: the scan of `a+1` and a space returned the three tokens
\* a, + and 1.
C20_Witness ==
    /\ Scanned
    /\ args[1].buf = <<"a", "+", "1", " ">>
    /\ Len(vec) = 4
    /\ Lexemes(vec) = <<"a", "+", "1">>

\* C21: the validator returns Ok(()) or one of the eight syntax errors for
\* every token sequence that ends with EOF, and never aborts, also when
\* the first mismatch comes with the cursor at index 0 or 1.
C21_ValidatorNeverAborts ==
    /\ hist # <<>> => ~(pc = "panicked" /\ Current.stage = "validate")
    /\ \A k \in DOMAIN hist :
           hist[k].validated => hist[k].verdict.kind \in {"Ok"} \cup SyntaxErrors

\* C22: match_token never reads tokens[i] with i outside the token
\* sequence, in the validator and in the evaluator, also after the cursor
\* was set back in a for statement: neither aborts at that index, and the
\* cursor ends inside the sequence or, EOF being the token matched last,
\* right behind it.
C22_CursorInsideTokens ==
    /\ pc = "validate"
           => /\ parser_parse(vec).err # IndexPanic
              /\ parser_parse(vec).i \in 0..Len(vec)
              /\ parser_parse(vec).i = Len(vec)
                     => parser_parse(vec).current_token_info.token = "EOF"
    /\ pc = "eval"
           => /\ eval_parse(vec, variables).err # IndexPanic
              /\ eval_parse(vec, variables).i \in 0..Len(vec)
              /\ eval_parse(vec, variables).i = Len(vec)
                     => eval_parse(vec, variables).current_token_info.token = "EOF"

\* C22, witness: the evaluator is about to run on a for statement whose
\* evaluation sets the cursor back and ends with the cursor behind EOF.
C22_Witness ==
    /\ pc = "eval"
    /\ vec \in ForInputs
    /\ \E e \in DOMAIN eval_parse(vec, variables).trace :
           eval_parse(vec, variables).trace[e].ev = "rewind"
    /\ eval_parse(vec, variables).i = Len(vec)

\* The values of the assign events of a trace for variable name, in order.
Assigned(trace, name) ==
    LET sel == SelectSeq(trace, LAMBDA e : e.ev = "assign" /\ e.name = name)
    IN  [k \in DOMAIN sel |-> sel[k].value]

\* C23: the evaluation of `for (v := a to b) begin S end` with a <= b
\* evaluates the start and the end expression once, runs S b - a + 1 times,
\* the map holding a, a + 1, ..., b for v when a pass starts, sets the
\* cursor back to the first token of the body after every pass but the
\* last, and leaves v at b and the cursor behind `end`.
C23_ForEndRunsEachValue ==
    /\ \A a \in 1..3, b \in 1..3, S \in Bodies("i") :
           (/\ a <= b
            /\ hist # <<>>
            /\ Current.evalRan
            /\ Current.tokens = ForEnd("i", a, b, S))
               => /\ Current.err.kind = "Ok"
                  /\ Current.value = 0
                  /\ Values(Current.trace, "bind") = <<a>>
                  /\ Values(Current.trace, "pass") =
                         [k \in 1..(b - a + 1) |-> a + k - 1]
                  /\ \A e \in DOMAIN Current.trace :
                         Current.trace[e].ev = "pass"
                             => MapAt(Len(hist), e)[<<"i">>]
                                    = Current.trace[e].value
                  /\ Values(Current.trace, "rewind") =
                         [k \in 1..(b - a) |-> Len(ForHead("i", a, b))]
                  /\ Current.envAfter[<<"i">>] = b
                  /\ S = <<Id("a"), Sym("Assignment"), Id("i")>>
                         => Assigned(Current.trace, <<"a">>) =
                                [k \in 1..(b - a + 1) |-> a + k - 1]
                  /\ eval_parse(Current.tokens, Current.envBefore).i
                         = Len(Current.tokens)
    /\ (hist # <<>> /\ Current.evalRan /\ Current.tokens = T_for_effects)
           => /\ Current.err.kind = "Ok"
              /\ Assigned(Current.trace, <<"s">>) = <<1>>
              /\ Assigned(Current.trace, <<"e">>) = <<2>>
              /\ Values(Current.trace, "pass") = <<1, 2>>
              /\ Current.envAfter[<<"i">>] = 2

\* C23, witness: `for (i := 1 to 3) begin a := i end` was evaluated in
\* three passes and left i and a at 3.
C23_Witness ==
    /\ hist # <<>>
    /\ Current.evalRan
    /\ Current.tokens =
           ForEnd("i", 1, 3, <<Id("a"), Sym("Assignment"), Id("i")>>)
    /\ Values(Current.trace, "pass") = <<1, 2, 3>>
    /\ variables[<<"i">>] = 3
    /\ variables[<<"a">>] = 3

\* C24: a semicolon between the statements of a for body is consumed and
\* nothing else: the control variable is incremented only after `end` was
\* matched and the cursor set back, so the statements of one pass read the
\* same value, and `for (i := 1 to 2) begin CONSOLE i; CONSOLE i end`
\* evaluates CONSOLE i to 1, 1, 2, 2.
C24_SemicolonOnlySeparates ==
    \A k \in DOMAIN hist :
        hist[k].evalRan =>
            /\ \A e \in DOMAIN hist[k].trace :
                   hist[k].trace[e].ev = "step"
                       => e > 1 /\ hist[k].trace[e - 1].ev = "rewind"
            /\ hist[k].tokens = T_for_two
                   => /\ hist[k].err.kind = "Ok"
                      /\ Values(hist[k].trace, "console") = <<1, 1, 2, 2>>

\* The number of the bits the reference values are taken to.
RefBits == 16

\* The bits of n in two's complement, as the set of their positions.
BitsOf(n) == {b \in 0..(RefBits - 1) : ((n % (2 ^ RefBits)) \div (2 ^ b)) % 2 = 1}

RECURSIVE SumOfBits(_)
SumOfBits(bits) ==
    IF bits = {} THEN 0
    ELSE LET b == CHOOSE b \in bits : TRUE IN 2 ^ b + SumOfBits(bits \ {b})

\* The integer whose two's complement bits are `bits`.
FromBits(bits) ==
    IF RefBits - 1 \in bits THEN SumOfBits(bits) - 2 ^ RefBits
    ELSE SumOfBits(bits)

\* The quotient of a by b # 0 that is rounded toward zero.
RefDiv(a, b) ==
    CHOOSE q \in (-Abs(a))..Abs(a) :
        /\ Abs(q * b) <= Abs(a)
        /\ Abs(a) - Abs(q * b) < Abs(b)
        /\ q # 0 => (q > 0) = ((a > 0) = (b > 0))

RefApply(op, a, b) ==
    CASE op = "Addition" -> a + b
      [] op = "Subtraction" -> a - b
      [] op = "Multiplication" -> a * b
      [] op = "Division" -> RefDiv(a, b)
      [] op = "BWAnd" -> FromBits(BitsOf(a) \cap BitsOf(b))
      [] op = "BWOr" -> FromBits(BitsOf(a) \cup BitsOf(b))

\* How tightly a binary operator binds.
RefPrecedence(op) ==
    CASE op \in {"BWAnd", "BWOr"} -> 1
      [] op \in {"Addition", "Subtraction"} -> 2
      [] op \in {"Multiplication", "Division"} -> 3

\* The positions of ts with a binary operator outside every pair of
\* parentheses: an operator token that follows a literal or `)`.
RefBinary(ts) ==
    {j \in 2..Len(ts) :
        /\ ts[j].token \in {"Addition", "Subtraction", "Multiplication",
                            "Division", "BWAnd", "BWOr"}
        /\ ts[j - 1].token \in {"Int", "RightParantheses"}
        /\ Cardinality({i \in 1..j : ts[i].token = "LeftParantheses"})
               = Cardinality({i \in 1..j : ts[i].token = "RightParantheses"})}

\* The decimal value of a lexeme of digits.
RECURSIVE RefInt(_)
RefInt(lexeme) ==
    IF lexeme = <<>> THEN 0
    ELSE 10 * RefInt(Front(lexeme))
         + (CHOOSE d \in 0..9 : HexChars[d + 1] = Last(lexeme))

\* The reference value of the expression ts: the expression is split at
\* the last of the binary operators that bind least.
RECURSIVE RefValue(_)
RefValue(ts) ==
    IF RefBinary(ts) # {}
    THEN LET j == CHOOSE j \in RefBinary(ts) :
                      \A i \in RefBinary(ts) :
                          \/ RefPrecedence(ts[j].token)
                                 < RefPrecedence(ts[i].token)
                          \/ /\ RefPrecedence(ts[j].token)
                                    = RefPrecedence(ts[i].token)
                             /\ i <= j
         IN  RefApply(ts[j].token, RefValue(SubSeq(ts, 1, j - 1)),
                      RefValue(SubSeq(ts, j + 1, Len(ts))))
    ELSE CASE ts[1].token = "Subtraction" -> -RefValue(Tail(ts))
           [] ts[1].token = "Addition" -> RefValue(Tail(ts))
           [] ts[1].token = "LeftParantheses" ->
                RefValue(SubSeq(ts, 2, Len(ts) - 1))
           [] OTHER -> RefInt(ts[1].lexeme)

\* The expression of a token sequence: the tokens before `;` and EOF.
ExprOf(ts) ==
    IF Len(ts) >= 2 /\ ts[Len(ts) - 1].token = "Semicolon"
    THEN SubSeq(ts, 1, Len(ts) - 2)
    ELSE Front(ts)

\* C25: an expression of integer literals, parentheses, unary + and - and
\* the binary operators * / + - & | evaluates to its reference value: * and
\* / bind tighter than + and -, these tighter than & and |, every binary
\* operator associates to the left, and / rounds toward zero; 2+3*4 is 14,
\* 10-3-2 is 5 and 1|2+4 is 7.
C25_ExpressionValue ==
    \A k \in DOMAIN hist :
        (hist[k].evalRan /\ ExprOf(hist[k].tokens) # <<>>) =>
            /\ hist[k].err.kind = "Ok"
            /\ hist[k].value = RefValue(ExprOf(hist[k].tokens))
            /\ Lexemes(hist[k].tokens) = <<"2", "+", "3", "*", "4">>
                   => hist[k].value = 14
            /\ Lexemes(hist[k].tokens) = <<"1", "0", "-", "3", "-", "2">>
                   => hist[k].value = 5
            /\ Lexemes(hist[k].tokens) = <<"1", "|", "2", "+", "4">>
                   => hist[k].value = 7

\* C25, witness: 2+7*2 was evaluated to 16.
C25_Witness ==
    /\ hist # <<>>
    /\ Current.evalRan
    /\ Lexemes(Current.tokens) = <<"2", "+", "7", "*", "2">>
    /\ Current.value = 16


\* The values of the events of kind ev for variable name in a trace.
ValuesOf(trace, ev, name) ==
    Values(SelectSeq(trace, LAMBDA e : e.ev = ev /\ e.name = name), ev)

\* The sequence s repeated n times.
RECURSIVE Repeat(_, _)
Repeat(s, n) == IF n = 0 THEN <<>> ELSE s \o Repeat(s, n - 1)

\* The value of a start expression of NestedStarts when i is v.
StartValue(start, v) ==
    CASE start = <<IntTok(1)>> -> 1
      [] start = <<IntTok(2)>> -> 2
      [] start = <<Id("i")>> -> v

\* The values c, c + 1, ..., d.
FromTo(c, d) == [k \in 1..(d - c + 1) |-> c + k - 1]

\* The passes of the inner loop over all passes a..b of the outer loop.
RECURSIVE InnerPasses(_, _, _, _)
InnerPasses(a, b, start, d) ==
    IF a > b THEN <<>>
    ELSE FromTo(StartValue(start, a), d) \o InnerPasses(a + 1, b, start, d)

\* C26: in `for (i := a to b) begin for (j := start to d) begin CONSOLE j
\* end end`, where both loops run at least once, every pass of the outer
\* loop evaluates the start expression of the inner loop again and binds j
\* to it, runs every pass of the inner loop, the inner body being evaluated
\* once for each pair of an outer and an inner pass; the inner loop sets the
\* cursor back to its own first body token only and the outer loop to its
\* own.
C26_NestedForRepeatsInner ==
    \A a \in 1..2, b \in 1..3, start \in NestedStarts, d \in 2..3 :
        (/\ a <= b
         /\ \A v \in a..b : StartValue(start, v) <= d
         /\ hist # <<>>
         /\ Current.evalRan
         /\ Current.tokens = NestedFor(a, b, start, d))
            => /\ Current.err.kind = "Ok"
               /\ Current.value = 0
               /\ ValuesOf(Current.trace, "pass", <<"i">>) = FromTo(a, b)
               /\ ValuesOf(Current.trace, "bind", <<"j">>) =
                      [k \in 1..(b - a + 1) |-> StartValue(start, a + k - 1)]
               /\ ValuesOf(Current.trace, "pass", <<"j">>) =
                      InnerPasses(a, b, start, d)
               /\ Values(Current.trace, "console") =
                      InnerPasses(a, b, start, d)
               /\ start # <<Id("i")>> =>
                      Len(Values(Current.trace, "console")) =
                          (b - a + 1) * (d - StartValue(start, a) + 1)
               /\ ValuesOf(Current.trace, "rewind", <<"i">>) =
                      [k \in 1..(b - a) |-> Len(ForHead("i", a, b))]
               /\ ValuesOf(Current.trace, "rewind", <<"j">>) =
                      [k \in 1..(Len(InnerPasses(a, b, start, d))
                                 - (b - a + 1)) |->
                           2 * Len(ForHead("i", a, b))]
               /\ eval_parse(Current.tokens, Current.envBefore).i
                      = Len(Current.tokens)

\* C26, witness: two outer passes with three inner passes each have run.
C26_Witness ==
    /\ hist # <<>>
    /\ Current.evalRan
    /\ Current.tokens = NestedFor(1, 2, <<IntTok(1)>>, 3)
    /\ Values(Current.trace, "console") = <<1, 2, 3, 1, 2, 3>>
    /\ ValuesOf(Current.trace, "rewind", <<"j">>) = <<18, 18, 18, 18>>
    /\ ValuesOf(Current.trace, "rewind", <<"i">>) = <<9>>


\* C27: every Assignment token the scanner has pushed has the lexeme `:=`
\* and every Comparison token the lexeme `==`.
C27_OperatorLexemesExact ==
    \A j \in DOMAIN vec :
        /\ vec[j].token = "Assignment" => vec[j].lexeme = <<":", "=">>
        /\ vec[j].token = "Comparison" => vec[j].lexeme = <<"=", "=">>


\* The value the control variable has when the body of ForOver(a, E, S) is
\* entered: the one the end expression left if it assigns i, else a.
FirstPass(a, E) == IF Head(E) = Id("i") THEN 3 ELSE a

\* The last event before event e of a trace that binds name or starts a
\* pass of its loop, or 0.
LastTurn(trace, e, name) ==
    LET before == {p \in 1..(e - 1) : /\ trace[p].ev \in {"bind", "pass"}
                                      /\ trace[p].name = name}
    IN  IF before = {} THEN 0
        ELSE CHOOSE p \in before : \A q \in before : q <= p

\* The passes of a for loop are fixed when its body is entered: a pass that
\* follows a pass of the same loop has the control value of that pass plus
\* one whatever the body assigned, and `for (i := a to E) begin S end`, where
\* E has the value 3 and S assigns i, y or both, ends without error after
\* the passes for the value i had when the body was entered up to 3.
C28_PassesFixed ==
    /\ \A k \in DOMAIN hist : \A e \in DOMAIN hist[k].trace :
           LET trace == hist[k].trace
               p == LastTurn(trace, e, trace[e].name)
           IN  (trace[e].ev = "pass" /\ p # 0 /\ trace[p].ev = "pass")
                   => trace[e].value = trace[p].value + 1
    /\ \A a \in 1..3, E \in EndBounds, S \in AssigningBodies :
           (/\ hist # <<>>
            /\ Current.evalRan
            /\ Current.tokens = ForOver(a, E, S))
               => /\ Current.err.kind = "Ok"
                  /\ Current.value = 0
                  /\ Values(Current.trace, "pass") = FromTo(FirstPass(a, E), 3)
                  /\ eval_parse(Current.tokens, Current.envBefore).i
                         = Len(Current.tokens)

C29_EmptyRangeSkipsLoop ==
    /\ \A a \in 1..3, b \in 1..3, S \in Bodies("i") :
           (/\ a > b
            /\ hist # <<>>
            /\ Current.evalRan
            /\ Current.tokens = ForEnd("i", a, b, S))
               => /\ Values(Current.trace, "pass") = <<>>
                  /\ Values(Current.trace, "bind") = <<a>>
                  /\ Current.envAfter[<<"i">>] = a
                  /\ Current.err.kind = "Ok"
                  /\ eval_parse(Current.tokens, Current.envBefore).i
                         = Len(Current.tokens)
    /\ (hist # <<>> /\ Current.evalRan /\ Current.tokens = T_for_skip)
           => /\ Values(Current.trace, "pass") = <<>>
              /\ Current.envAfter[<<"i">>] = 2
              /\ Current.err.kind = "Ok"
              /\ Current.value = 2


\* C30: the evaluation of a validated token sequence returns an integer or
\* one of the syntax errors or UndefinedVariable and never aborts; after
\* `a:=7;a/0;` main has printed an error for the file and is past it, and
\* the map holds 7 for a.
C30_EvaluatorNeverAborts ==
    /\ hist # <<>> => ~(pc = "panicked" /\ Current.evalRan)
    /\ \A k \in DOMAIN hist :
           hist[k].evalRan =>
               hist[k].err.kind \in {"Ok", "UndefinedVariable"} \cup SyntaxErrors
    /\ (hist # <<>> /\ Current.evalRan /\ Current.tokens = T_div_zero)
           => /\ Current.err.kind \in {"UndefinedVariable"} \cup SyntaxErrors
              /\ argIdx = 2
              /\ variables[<<"a">>] = 7

=============================================================================
